---- MODULE Spec2Model ----
(***************************************************************************)
(* Text-formula builder of the Excel training app (src/app.py): the       *)
(* formula store, the cell-selection mode store, the result display and   *)
(* the callbacks that change them, with the Excel helper functions the    *)
(* evaluator applies.                                                      *)
(*                                                                         *)
(* Python strings are sequences of one-character strings.  Values that    *)
(* can be None, an int, a str or a dict are tagged records (None, PInt,   *)
(* PStr, cell dicts), so that values of different Python types compare    *)
(* unequal as they do in Python.                                           *)
(***************************************************************************)
EXTENDS Integers, Sequences, FiniteSets, TLC

VARIABLES
    formula,          \* dcc.Store text-formula-store: list of component dicts
    selection_mode,   \* dcc.Store text-selection-mode-store
    text_output,      \* children of the text-output-display Div
    table_data,       \* data of the text DataTable (list of row dicts)
    next_uuid,        \* number of component ids handed out so far
    written,          \* the outputs the last callback run wrote (did not return no_update for)
    call,             \* the last direct application of a function: its name, arguments and result
    cond_selection_mode,  \* dcc.Store cond-selection-mode-store
    if_param_store,       \* dcc.Stores if-param-store-1 .. if-param-store-4
    ifs_param_store,      \* dcc.Stores ifs-param-store-1 .. ifs-param-store-7
    if_results_display,   \* children of the if-results-display Div
    ifs_results_display   \* children of the ifs-results-display Div

\* the state of the conditional tab
cond_vars ==
    <<cond_selection_mode, if_param_store, ifs_param_store, if_results_display, ifs_results_display>>

vars == <<formula, selection_mode, text_output, table_data, next_uuid, written, call, cond_vars>>

----------------------------------------------------------------------------
(* Bounds of the model *)

\* longest formula sequence explored
MaxLen == 3

\* number of component ids (uuid4 values) that can be handed out
MaxUuid == 3

\* most function components in one formula
MaxFunctions == 1

----------------------------------------------------------------------------
(* Python values *)

None == [k |-> "None"]

PInt(n) == [k |-> "int", n |-> n]

PStr(s) == [k |-> "str", s |-> s]

\* a Python float that is a multiple of one half: halves / 2
PFloat(halves) == [k |-> "float", halves |-> halves]

\* dash.no_update, and a value written to an Output
no_update == [k |-> "no_update"]

Set(v) == [k |-> "set", v |-> v]

\* the value a store or property holds after a callback returned ret for it
ApplyOutput(old, ret) == IF ret.k = "set" THEN ret.v ELSE old

Min(a, b) == IF a < b THEN a ELSE b

Max(a, b) == IF a > b THEN a ELSE b

DIGITS == <<"0", "1", "2", "3", "4", "5", "6", "7", "8", "9">>

RECURSIVE NatToStr(_)
NatToStr(n) == IF n < 10 THEN <<DIGITS[n + 1]>> ELSE NatToStr(n \div 10) \o <<DIGITS[(n % 10) + 1]>>

\* str(n) of a Python int
IntToStr(n) == IF n < 0 THEN <<"-">> \o NatToStr(0 - n) ELSE NatToStr(n)

\* str(x) of a Python float that is a multiple of one half
FloatToStr(halves) ==
    LET a == IF halves < 0 THEN 0 - halves ELSE halves
    IN  (IF halves < 0 THEN <<"-">> ELSE <<>>)
            \o NatToStr(a \div 2) \o <<".">> \o (IF a % 2 = 0 THEN <<"0">> ELSE <<"5">>)

\* s[lo:hi] of a Python string, negative and out-of-range indices included
PySlice(s, lo, hi) ==
    LET n == Len(s)
        a == IF lo < 0 THEN Max(n + lo, 0) ELSE Min(lo, n)
        b == IF hi < 0 THEN Max(n + hi, 0) ELSE Min(hi, n)
    IN  IF a < b THEN SubSeq(s, a + 1, b) ELSE <<>>

\* s.startswith(p)
StartsWith(s, p) == Len(p) <= Len(s) /\ SubSeq(s, 1, Len(p)) = p

\* s.endswith(p)
EndsWith(s, p) == Len(p) <= Len(s) /\ SubSeq(s, Len(s) - Len(p) + 1, Len(s)) = p

\* s.find(d): 0-based index of the first occurrence of d in s, -1 if none
Find(s, d) ==
    LET hits == {i \in 0..(Len(s) - Len(d)) : SubSeq(s, i + 1, i + Len(d)) = d}
    IN  IF hits = {} THEN 0 - 1 ELSE CHOOSE i \in hits : \A j \in hits : i <= j

\* s.rfind(d): 0-based index of the last occurrence of d in s, -1 if none
RFind(s, d) ==
    LET hits == {i \in 0..(Len(s) - Len(d)) : SubSeq(s, i + 1, i + Len(d)) = d}
    IN  IF hits = {} THEN 0 - 1 ELSE CHOOSE i \in hits : \A j \in hits : i >= j

\* s.replace(old, new) for a non-empty old: every non-overlapping occurrence, left to right
RECURSIVE Replace(_, _, _)
Replace(s, old, new) ==
    LET i == Find(s, old)
    IN  IF i < 0 THEN s
        ELSE SubSeq(s, 1, i) \o new \o Replace(SubSeq(s, i + Len(old) + 1, Len(s)), old, new)

\* s.split(d, 1) for a non-empty d: one part if d is absent, else the parts around its first occurrence
Split1(s, d) ==
    LET i == Find(s, d)
    IN  IF i < 0 THEN <<s>>
        ELSE <<SubSeq(s, 1, i), SubSeq(s, i + Len(d) + 1, Len(s))>>

\* s.rsplit('-', 1): the parts around the last '-', one part if there is none
RSplitDash(s) ==
    LET i == RFind(s, <<"-">>)
    IN  IF i < 0 THEN <<s>>
        ELSE <<SubSeq(s, 1, i), SubSeq(s, i + 2, Len(s))>>

IsDigit(c) == \E i \in 1..10 : DIGITS[i] = c

DigitVal(c) == (CHOOSE i \in 1..10 : DIGITS[i] = c) - 1

RECURSIVE DigitsVal(_)
DigitsVal(s) == IF s = <<>> THEN 0 ELSE DigitsVal(SubSeq(s, 1, Len(s) - 1)) * 10 + DigitVal(s[Len(s)])

ValueError == [k |-> "ValueError"]

TypeError == [k |-> "TypeError"]

\* int(s) of a string of an optional sign and decimal digits; ValueError otherwise
ParseInt(s) ==
    LET signed == s # <<>> /\ s[1] \in {"-", "+"}
        body   == IF signed THEN SubSeq(s, 2, Len(s)) ELSE s
    IN  IF body # <<>> /\ \A i \in 1..Len(body) : IsDigit(body[i])
        THEN PInt(IF signed /\ s[1] = "-" THEN 0 - DigitsVal(body) ELSE DigitsVal(body))
        ELSE ValueError

\* int(v): an int is itself, a float is truncated towards zero (NaN raises
\* ValueError), a str is parsed, None and dicts raise TypeError
int(v) ==
    CASE v.k = "int"   -> v
      [] v.k = "float" -> PInt(IF v.halves < 0 THEN 0 - ((0 - v.halves) \div 2) ELSE v.halves \div 2)
      [] v.k = "nan"   -> ValueError
      [] v.k = "str"   -> ParseInt(v.s)
      [] OTHER         -> TypeError

----------------------------------------------------------------------------
(* Message strings of the callbacks and helpers *)


MSG_RESULT_PREFIX ==
    <<"R", "e", "s", "u", "l", "t", ":", " ">>

MSG_CLEARED ==
    <<"R", "e", "s", "u", "l", "t", ":", " ", "F", "o", "r", "m", "u", "l", "a", " ", "c", "l", "e", "a", "r", "e", "d", ".">>

MSG_NOTHING_TO_DELETE ==
    <<"R", "e", "s", "u", "l", "t", ":", " ", "N", "o", "t", "h", "i", "n", "g", " ", "t", "o", " ", "d", "e", "l", "e", "t", "e", ".">>

MSG_BAD_OPERATOR ==
    <<"E", "r", "r", "o", "r", ":", " ", "C", "a", "n", "n", "o", "t", " ", "s", "t", "a", "r", "t", " ", "w", "i", "t", "h", " ", "'", "&", "'", " ", "o", "r", " ", "h", "a", "v", "e", " ", "c", "o", "n", "s", "e", "c", "u", "t", "i", "v", "e", " ", "'", "&", "&", "'", ".">>

MSG_USE_AMP_BEFORE ==
    <<"E", "r", "r", "o", "r", ":", " ", "U", "s", "e", " ", "'", "&", "'", " ", "b", "e", "f", "o", "r", "e", " ", "a", "d", "d", "i", "n", "g", " ">>

MSG_CANNOT_ADD ==
    <<"E", "r", "r", "o", "r", ":", " ", "C", "a", "n", "n", "o", "t", " ", "a", "d", "d", " ">>

MSG_CANNOT_ADD_TAIL ==
    <<" ", "h", "e", "r", "e", ".", " ", "U", "s", "e", " ", "'", "&", "'", " ", "t", "o", " ", "c", "o", "n", "n", "e", "c", "t", " ", "f", "o", "r", "m", "u", "l", "a", "s", " ", "o", "r", " ", "t", "e", "x", "t", ".">>

MSG_INVALID_OPERATION ==
    <<"E", "r", "r", "o", "r", ":", " ", "I", "n", "v", "a", "l", "i", "d", " ", "o", "p", "e", "r", "a", "t", "i", "o", "n", ".">>

MSG_MISPLACED_OPERATOR ==
    <<"E", "r", "r", "o", "r", ":", " ", "M", "i", "s", "p", "l", "a", "c", "e", "d", " ", "'", "&", "'", " ", "o", "p", "e", "r", "a", "t", "o", "r", ".">>

MSG_MISSING_AMP ==
    <<"E", "r", "r", "o", "r", ":", " ", "M", "i", "s", "s", "i", "n", "g", " ", "'", "&", "'", " ", "b", "e", "f", "o", "r", "e", " ">>

MSG_COMPONENT_TAIL ==
    <<" ", "c", "o", "m", "p", "o", "n", "e", "n", "t", ".">>

MSG_NO_OUTPUT_YET ==
    <<"R", "e", "s", "u", "l", "t", ":", " ", "[", "N", "o", " ", "o", "u", "t", "p", "u", "t", " ", "y", "e", "t", "]">>

MSG_INTERNAL_PARAM ==
    <<"E", "r", "r", "o", "r", ":", " ", "I", "n", "t", "e", "r", "n", "a", "l", " ", "P", "a", "r", "a", "m", " ", "E", "r", "r", "o", "r", ".">>

MSG_NEGATIVE_COUNT ==
    <<"E", "r", "r", "o", "r", ":", " ", "N", "u", "m", "b", "e", "r", " ", "o", "f", " ", "c", "h", "a", "r", "a", "c", "t", "e", "r", "s", " ", "c", "a", "n", "n", "o", "t", " ", "b", "e", " ", "n", "e", "g", "a", "t", "i", "v", "e", ".">>

MSG_LR_INVALID_INT ==
    <<"E", "r", "r", "o", "r", ":", " ", "S", "e", "c", "o", "n", "d", " ", "a", "r", "g", "u", "m", "e", "n", "t", " ", "(", "n", "u", "m", "_", "c", "h", "a", "r", "s", ")", " ", "m", "u", "s", "t", " ", "b", "e", " ", "a", " ", "v", "a", "l", "i", "d", " ", "i", "n", "t", "e", "g", "e", "r", ".">>

MSG_MID_INVALID_START ==
    <<"E", "r", "r", "o", "r", ":", " ", "S", "t", "a", "r", "t", " ", "n", "u", "m", "b", "e", "r", " ", "m", "u", "s", "t", " ", "b", "e", " ", "1", " ", "o", "r", " ", "g", "r", "e", "a", "t", "e", "r", ".">>

MSG_MID_INVALID_INT ==
    <<"E", "r", "r", "o", "r", ":", " ", "S", "e", "c", "o", "n", "d", " ", "a", "n", "d", " ", "t", "h", "i", "r", "d", " ", "a", "r", "g", "u", "m", "e", "n", "t", "s", " ", "m", "u", "s", "t", " ", "b", "e", " ", "v", "a", "l", "i", "d", " ", "i", "n", "t", "e", "g", "e", "r", "s", ".">>

MSG_DELIM_HEAD ==
    <<"E", "r", "r", "o", "r", ":", " ", "D", "e", "l", "i", "m", "i", "t", "e", "r", " ", "'">>

MSG_DELIM_TAIL ==
    <<"'", " ", "n", "o", "t", " ", "f", "o", "u", "n", "d", " ", "i", "n", " ", "t", "e", "x", "t", ".">>

MSG_UNKNOWN_FUNCTION ==
    <<"E", "r", "r", "o", "r", ":", " ", "U", "n", "k", "n", "o", "w", "n", " ", "f", "u", "n", "c", "t", "i", "o", "n", " ", "'">>

ERROR_PREFIX ==
    <<"E", "r", "r", "o", "r", ":">>

\* the characters of the component-type and function names used inside messages
NameChars(name) ==
    CASE name = "LITERAL"        -> <<"L", "I", "T", "E", "R", "A", "L">>
      [] name = "CELL"           -> <<"C", "E", "L", "L">>
      [] name = "LEFT"           -> <<"L", "E", "F", "T">>
      [] name = "RIGHT"          -> <<"R", "I", "G", "H", "T">>
      [] name = "MID"            -> <<"M", "I", "D">>
      [] name = "SUBSTITUTE"     -> <<"S", "U", "B", "S", "T", "I", "T", "U", "T", "E">>
      [] name = "TEXTBEFORE"     -> <<"T", "E", "X", "T", "B", "E", "F", "O", "R", "E">>
      [] name = "TEXTAFTER"      -> <<"T", "E", "X", "T", "A", "F", "T", "E", "R">>
      [] name = "&"              -> <<"&">>
      [] name = "operator"       -> <<"o", "p", "e", "r", "a", "t", "o", "r">>
      [] name = "literal_string" -> <<"l", "i", "t", "e", "r", "a", "l", "_", "s", "t", "r", "i", "n", "g">>
      [] name = "cell_value"     -> <<"c", "e", "l", "l", "_", "v", "a", "l", "u", "e">>
      [] name = "gone"           -> <<"g", "o", "n", "e">>
      [] name = "activate-match-array" ->
             <<"a","c","t","i","v","a","t","e","-","m","a","t","c","h","-","a","r","r","a","y">>
      [] name = "function"       -> <<"f", "u", "n", "c", "t", "i", "o", "n">>

----------------------------------------------------------------------------
(* Helper functions *)

LETTERS ==
    <<"A", "B", "C", "D", "E", "F", "G", "H", "I", "J", "K", "L", "M",
      "N", "O", "P", "Q", "R", "S", "T", "U", "V", "W", "X", "Y", "Z">>

\* the loop with plain base-26 digits: n = n // 26 without the borrow of 1
RECURSIVE ColNameLoop_PlainBase26(_, _)
ColNameLoop_PlainBase26(n, name) ==
    LET name1 == <<LETTERS[(n % 26) + 1]>> \o name
        n1    == n \div 26
    IN  IF n1 <= 0 THEN name1 ELSE ColNameLoop_PlainBase26(n1, name1)

\* the while loop of get_excel_col_name: prepend a letter, n = n // 26 - 1, stop when n < 0
RECURSIVE ColNameLoop(_, _)
ColNameLoop(n, name) ==
    LET name1 == <<LETTERS[(n % 26) + 1]>> \o name
        n1    == (n \div 26) - 1
    IN  IF n1 < 0 THEN name1 ELSE ColNameLoop(n1, name1)

get_excel_col_name_OneBased(n) == IF n < 1 THEN <<>> ELSE ColNameLoop(n - 1, <<>>)

get_excel_col_name(n) == IF n < 0 THEN <<>> ELSE ColNameLoop(n, <<>>)

NaN == [k |-> "nan"]

_to_str_safe(val) ==
    CASE val.k = "None" -> <<>>
      [] val.k = "nan"  -> <<>>
      [] val.k = "str"  -> val.s
      [] val.k = "int"  -> IntToStr(val.n)
      [] val.k = "float" -> FloatToStr(val.halves)

\* LEFT that takes one character more than asked
excel_left_OneTooMany(text, num_chars) ==
    LET text_str == _to_str_safe(text)
        num      == int(num_chars)
    IN  IF num.k # "int" THEN MSG_LR_INVALID_INT
        ELSE IF num.n < 0 THEN MSG_NEGATIVE_COUNT
        ELSE PySlice(text_str, 0, num.n + 1)

excel_left(text, num_chars) ==
    LET text_str == _to_str_safe(text)
        num      == int(num_chars)
    IN  IF num.k # "int" THEN MSG_LR_INVALID_INT
        ELSE IF num.n < 0 THEN MSG_NEGATIVE_COUNT
        ELSE PySlice(text_str, 0, num.n)

\* RIGHT without the special case for a count of 0: text_str[-0:] is the whole text
excel_right_NoZeroCase(text, num_chars) ==
    LET text_str == _to_str_safe(text)
        num      == int(num_chars)
    IN  IF num.k # "int" THEN MSG_LR_INVALID_INT
        ELSE IF num.n < 0 THEN MSG_NEGATIVE_COUNT
        ELSE PySlice(text_str, 0 - num.n, Len(text_str))

excel_right(text, num_chars) ==
    LET text_str == _to_str_safe(text)
        num      == int(num_chars)
    IN  IF num.k # "int" THEN MSG_LR_INVALID_INT
        ELSE IF num.n < 0 THEN MSG_NEGATIVE_COUNT
        ELSE IF num.n > 0 THEN PySlice(text_str, 0 - num.n, Len(text_str)) ELSE <<>>

\* MID that takes start as a 0-based index
excel_mid_ZeroBased(text, start_num, num_chars) ==
    LET text_str == _to_str_safe(text)
        start    == int(start_num)
        num      == int(num_chars)
    IN  IF start.k # "int" \/ num.k # "int" THEN MSG_MID_INVALID_INT
        ELSE IF start.n < 1 THEN MSG_MID_INVALID_START
        ELSE IF num.n < 0 THEN MSG_NEGATIVE_COUNT
        ELSE PySlice(text_str, start.n, start.n + num.n)

excel_mid(text, start_num, num_chars) ==
    LET text_str == _to_str_safe(text)
        start    == int(start_num)
        num      == int(num_chars)
    IN  IF start.k # "int" \/ num.k # "int" THEN MSG_MID_INVALID_INT
        ELSE IF start.n < 1 THEN MSG_MID_INVALID_START
        ELSE IF num.n < 0 THEN MSG_NEGATIVE_COUNT
        ELSE PySlice(text_str, start.n - 1, start.n - 1 + num.n)

\* SUBSTITUTE that replaces the first occurrence only
excel_substitute_FirstOnly(text, old_text, new_text) ==
    LET text_str     == _to_str_safe(text)
        old_text_str == _to_str_safe(old_text)
        new_text_str == _to_str_safe(new_text)
        i            == Find(text_str, old_text_str)
    IN  IF old_text_str = <<>> \/ i < 0 THEN text_str
        ELSE SubSeq(text_str, 1, i) \o new_text_str
                 \o SubSeq(text_str, i + Len(old_text_str) + 1, Len(text_str))

excel_substitute(text, old_text, new_text) ==
    LET text_str     == _to_str_safe(text)
        old_text_str == _to_str_safe(old_text)
        new_text_str == _to_str_safe(new_text)
    IN  IF old_text_str = <<>> THEN text_str
        ELSE Replace(text_str, old_text_str, new_text_str)

\* TEXTBEFORE that leaves the delimiter at the end of its result
excel_textbefore_KeepsDelimiter(text, delimiter) ==
    LET text_str      == _to_str_safe(text)
        delimiter_str == _to_str_safe(delimiter)
        parts         == Split1(text_str, delimiter_str)
    IN  IF delimiter_str = <<>> THEN <<>>
        ELSE IF Len(parts) = 1 THEN MSG_DELIM_HEAD \o delimiter_str \o MSG_DELIM_TAIL
        ELSE parts[1] \o delimiter_str

\* TEXTBEFORE that splits on the last occurrence of the delimiter
excel_textbefore_SplitsAtLast(text, delimiter) ==
    LET text_str      == _to_str_safe(text)
        delimiter_str == _to_str_safe(delimiter)
        i             == RFind(text_str, delimiter_str)
    IN  IF delimiter_str = <<>> THEN <<>>
        ELSE IF i < 0 THEN MSG_DELIM_HEAD \o delimiter_str \o MSG_DELIM_TAIL
        ELSE SubSeq(text_str, 1, i)

excel_textbefore(text, delimiter) ==
    LET text_str      == _to_str_safe(text)
        delimiter_str == _to_str_safe(delimiter)
        parts         == Split1(text_str, delimiter_str)
    IN  IF delimiter_str = <<>> THEN <<>>
        ELSE IF Len(parts) = 1 THEN MSG_DELIM_HEAD \o delimiter_str \o MSG_DELIM_TAIL
        ELSE parts[1]

\* TEXTAFTER that splits on the last occurrence of the delimiter
excel_textafter_SplitsAtLast(text, delimiter) ==
    LET text_str      == _to_str_safe(text)
        delimiter_str == _to_str_safe(delimiter)
        i             == RFind(text_str, delimiter_str)
    IN  IF delimiter_str = <<>> THEN text_str
        ELSE IF i < 0 THEN MSG_DELIM_HEAD \o delimiter_str \o MSG_DELIM_TAIL
        ELSE SubSeq(text_str, i + Len(delimiter_str) + 1, Len(text_str))

\* TEXTAFTER that keeps the delimiter at the head of its result
excel_textafter_FromDelimiter(text, delimiter) ==
    LET text_str      == _to_str_safe(text)
        delimiter_str == _to_str_safe(delimiter)
        parts         == Split1(text_str, delimiter_str)
    IN  IF delimiter_str = <<>> THEN text_str
        ELSE IF Len(parts) = 1 THEN MSG_DELIM_HEAD \o delimiter_str \o MSG_DELIM_TAIL
        ELSE delimiter_str \o parts[2]

excel_textafter(text, delimiter) ==
    LET text_str      == _to_str_safe(text)
        delimiter_str == _to_str_safe(delimiter)
        parts         == Split1(text_str, delimiter_str)
    IN  IF delimiter_str = <<>> THEN text_str
        ELSE IF Len(parts) = 1 THEN MSG_DELIM_HEAD \o delimiter_str \o MSG_DELIM_TAIL
        ELSE parts[2]

----------------------------------------------------------------------------
(* Formula components and the controls they carry *)

\* str(uuid.uuid4()) of the n-th component created: hex digits joined by '-'
uuid4(n) == <<"c", "-", DIGITS[n + 1]>>

STR_CELL == <<"c", "e", "l", "l">>

SUFFIX_CELL == <<"-", "c", "e", "l", "l">>

\* params_structure: the initial parameter list of each function
params_structure(name) ==
    CASE name \in {"LEFT", "RIGHT", "TEXTBEFORE", "TEXTAFTER"} -> <<None, None>>
      [] name \in {"MID", "SUBSTITUTE"}                        -> <<None, None, None>>

\* param_ids_structure: the ids of the interactive elements of each function
param_ids_structure(name, component_id) ==
    LET btn0   == [type |-> "text-cell-btn",   index |-> component_id \o <<"-", "0">>]
        num(i) == [type |-> "text-num-input",  index |-> component_id \o <<"-", DIGITS[i + 1]>>]
        txt(i) == [type |-> "text-text-input", index |-> component_id \o <<"-", DIGITS[i + 1]>>]
    IN  CASE name \in {"LEFT", "RIGHT"}            -> <<btn0, num(1)>>
          [] name = "MID"                          -> <<btn0, num(1), num(2)>>
          [] name = "SUBSTITUTE"                   -> <<btn0, txt(1), txt(2)>>
          [] name \in {"TEXTBEFORE", "TEXTAFTER"}  -> <<btn0, txt(1)>>

FUNCTION_NAMES == {"LEFT", "RIGHT", "MID", "SUBSTITUTE", "TEXTBEFORE", "TEXTAFTER"}

\* the add-formula-btn buttons of the layout
ADD_BUTTONS == FUNCTION_NAMES \cup {"&", "LITERAL", "CELL"}

CLEAR_BTN == [id |-> "clear-formula-btn"]

DELETE_BTN == [id |-> "delete-last-formula-btn"]

AddBtn(index) == [type |-> "add-formula-btn", index |-> index]

\* the component an add button creates when its position is allowed
NewOperator(component_id) ==
    [id |-> component_id, type |-> "operator", value |-> PStr(<<"&">>)]

NewLiteral(component_id) ==
    [id |-> component_id, type |-> "literal_string",
     input_id |-> [type |-> "text-literal-input", index |-> component_id],
     value |-> PStr(<<>>)]

NewCell(component_id) ==
    [id |-> component_id, type |-> "cell_value", ref |-> None, value |-> None,
     button_id |-> [type |-> "text-cell-btn", index |-> component_id \o SUFFIX_CELL]]

NewFunction(component_type, component_id) ==
    [id |-> component_id, type |-> "function", name |-> component_type,
     params |-> params_structure(component_type),
     param_ids |-> param_ids_structure(component_type, component_id)]

\* n_clicks of a button that was really clicked
Clicked(triggered_value) == triggered_value.k = "int" /\ triggered_value.n > 0

\* the nesting-prevention checks
can_add_value_component_OnlyAfterFunction(current_formula) ==
    current_formula = <<>> \/ current_formula[Len(current_formula)].type # "function"

\* a value component accepted after anything
can_add_value_component_Always(current_formula) == TRUE

can_add_value_component(current_formula) ==
    current_formula = <<>> \/ current_formula[Len(current_formula)].type = "operator"

can_add_operator_NoLastCheck(current_formula) ==
    current_formula # <<>>

can_add_operator(current_formula) ==
    current_formula # <<>> /\ current_formula[Len(current_formula)].type # "operator"

\* what update_formula_structure returns for the formula store and the result display
Ret2(formula_out, output_out) == [formula |-> formula_out, output |-> output_out]

\* the add branch of update_formula_structure
AddComponentBranch(component_type, current_formula, component_id) ==
    LET reject(msg) == Ret2(no_update, Set(PStr(msg)))
        accept(c)   == Ret2(Set(Append(current_formula, c)), no_update)
    IN  IF component_type = "&"
        THEN IF ~can_add_operator(current_formula)
             THEN reject(MSG_BAD_OPERATOR)
             ELSE accept(NewOperator(component_id))
        ELSE IF component_type \in {"LITERAL", "CELL"}
        THEN IF ~can_add_value_component(current_formula)
             THEN reject(MSG_USE_AMP_BEFORE \o NameChars(component_type) \o <<".">>)
             ELSE IF component_type = "LITERAL"
                  THEN accept(NewLiteral(component_id))
                  ELSE accept(NewCell(component_id))
        ELSE IF component_type \in FUNCTION_NAMES
        THEN IF ~can_add_value_component(current_formula)
             THEN reject(MSG_CANNOT_ADD \o NameChars(component_type) \o MSG_CANNOT_ADD_TAIL)
             ELSE accept(NewFunction(component_type, component_id))
        ELSE reject(MSG_INVALID_OPERATION)

\* the delete branch of update_formula_structure: pop() a last component that exists
DeleteLastBranch_PopsFirst(current_formula) ==
    IF current_formula # <<>>
    THEN Ret2(Set(SubSeq(current_formula, 2, Len(current_formula))), no_update)
    ELSE Ret2(no_update, Set(PStr(MSG_NOTHING_TO_DELETE)))

DeleteLastBranch(current_formula) ==
    IF current_formula # <<>>
    THEN Ret2(Set(SubSeq(current_formula, 1, Len(current_formula) - 1)), no_update)
    ELSE Ret2(no_update, Set(PStr(MSG_NOTHING_TO_DELETE)))

\* update_formula_structure: the formula store output and the result display output
update_formula_structure(triggered_id, triggered_value, current_formula, component_id) ==
    IF triggered_id = CLEAR_BTN
    THEN IF Clicked(triggered_value)
         THEN Ret2(Set(<<>>), Set(PStr(MSG_CLEARED)))
         ELSE Ret2(no_update, no_update)
    ELSE IF triggered_id = DELETE_BTN
    THEN IF Clicked(triggered_value)
         THEN DeleteLastBranch(current_formula)
         ELSE Ret2(no_update, no_update)
    ELSE IF "type" \in DOMAIN triggered_id /\ triggered_id.type = "add-formula-btn"
            /\ Clicked(triggered_value)
    THEN AddComponentBranch(triggered_id.index, current_formula, component_id)
    ELSE Ret2(no_update, no_update)

----------------------------------------------------------------------------
(* Cell-selection mode *)

IDLE == [active_component_id |-> None, active_param_index |-> None]

Listening(component_id, param_index) ==
    [active_component_id |-> PStr(component_id), active_param_index |-> param_index]

\* the parse of a text-cell-btn index; ok is FALSE when rsplit or int() raises
ParseCellBtnIndex(index_str) ==
    IF EndsWith(index_str, SUFFIX_CELL)
    THEN [ok |-> TRUE,
          component_id |-> PStr(SubSeq(index_str, 1, Len(index_str) - Len(SUFFIX_CELL))),
          param_index  |-> PStr(STR_CELL)]
    ELSE LET parts == RSplitDash(index_str)
         IN  IF Len(parts) # 2 THEN [ok |-> FALSE]
             ELSE IF int(PStr(parts[2])).k # "int" THEN [ok |-> FALSE]
             ELSE [ok |-> TRUE, component_id |-> PStr(parts[1]),
                   param_index |-> int(PStr(parts[2]))]

\* activate_text_cell_selection: the selection-mode store output
activate_text_cell_selection_NoOverwrite(triggered_id, triggered_value, current_mode) ==
    IF triggered_value.k = "None" \/ triggered_value = PInt(0)
    THEN no_update
    ELSE LET parsed == ParseCellBtnIndex(triggered_id.index)
         IN  IF ~parsed.ok
             THEN Set(IDLE)
             ELSE IF current_mode = IDLE
                  THEN Set([active_component_id |-> parsed.component_id,
                            active_param_index  |-> parsed.param_index])
                  ELSE no_update

activate_text_cell_selection_AlwaysSet(triggered_id, triggered_value, current_mode) ==
    IF triggered_value.k = "None" \/ triggered_value = PInt(0)
    THEN no_update
    ELSE LET parsed == ParseCellBtnIndex(triggered_id.index)
         IN  IF ~parsed.ok
             THEN Set(IDLE)
             ELSE Set([active_component_id |-> parsed.component_id,
                       active_param_index  |-> parsed.param_index])

activate_text_cell_selection(triggered_id, triggered_value, current_mode) ==
    IF triggered_value.k = "None" \/ triggered_value = PInt(0)
    THEN no_update
    ELSE LET parsed == ParseCellBtnIndex(triggered_id.index)
         IN  IF ~parsed.ok
             THEN Set(IDLE)
             ELSE IF current_mode.active_component_id # parsed.component_id
                     \/ current_mode.active_param_index # parsed.param_index
                  THEN Set([active_component_id |-> parsed.component_id,
                            active_param_index  |-> parsed.param_index])
                  ELSE no_update

----------------------------------------------------------------------------
(* Cell clicks and input changes *)

\* original_text_cols_list: the columns of the text table
original_text_cols_list == <<"seat", "name", "party">>

\* list.index(x) of a column id, 0-based
ColIndex(col_id) == (CHOOSE i \in 1..Len(original_text_cols_list) : original_text_cols_list[i] = col_id) - 1

InCols(col_id) == \E i \in 1..Len(original_text_cols_list) : original_text_cols_list[i] = col_id

\* dict.get(col_id) of a table row
RowGet(row, col_id) == IF col_id \in DOMAIN row THEN row[col_id] ELSE None

CellDict(ref, value) == [k |-> "dict", ref |-> ref, value |-> value]

\* 1-based position of the first component whose id is the given one, 0 if none
FirstWithId(formula_data, component_id) ==
    LET hits == {i \in 1..Len(formula_data) : PStr(formula_data[i].id) = component_id}
    IN  IF hits = {} THEN 0 ELSE CHOOSE i \in hits : \A j \in hits : i <= j

\* the search loop writing the cell into every parameter of the function
ResolveSlot_EveryParam(formula_data, active_comp_id, active_param_idx, cell_data) ==
    LET i == FirstWithId(formula_data, active_comp_id)
    IN  IF i = 0 THEN [updated |-> FALSE, formula |-> formula_data]
        ELSE LET component == formula_data[i]
             IN  IF active_param_idx = PStr(STR_CELL)
                 THEN IF component.type = "cell_value"
                      THEN [updated |-> TRUE,
                            formula |-> [formula_data EXCEPT ![i] =
                                [component EXCEPT !.ref = cell_data.ref, !.value = cell_data.value]]]
                      ELSE [updated |-> FALSE, formula |-> formula_data]
                 ELSE IF active_param_idx.k = "int"
                 THEN IF component.type = "function" /\ 0 <= active_param_idx.n
                         /\ active_param_idx.n < Len(component.params)
                      THEN [updated |-> TRUE,
                            formula |-> [formula_data EXCEPT ![i] =
                                [component EXCEPT !.params =
                                    [p \in DOMAIN component.params |-> cell_data]]]]
                      ELSE [updated |-> FALSE, formula |-> formula_data]
                 ELSE [updated |-> FALSE, formula |-> formula_data]

\* the search loop of handle_text_cell_selection: the updated formula, or the formula
\* as it was when no component or slot matched (updated stays False)
ResolveSlot(formula_data, active_comp_id, active_param_idx, cell_data) ==
    LET i == FirstWithId(formula_data, active_comp_id)
    IN  IF i = 0 THEN [updated |-> FALSE, formula |-> formula_data]
        ELSE LET component == formula_data[i]
             IN  IF active_param_idx = PStr(STR_CELL)
                 THEN IF component.type = "cell_value"
                      THEN [updated |-> TRUE,
                            formula |-> [formula_data EXCEPT ![i] =
                                [component EXCEPT !.ref = cell_data.ref, !.value = cell_data.value]]]
                      ELSE [updated |-> FALSE, formula |-> formula_data]
                 ELSE IF active_param_idx.k = "int"
                 THEN IF component.type = "function" /\ 0 <= active_param_idx.n
                         /\ active_param_idx.n < Len(component.params)
                      THEN [updated |-> TRUE,
                            formula |-> [formula_data EXCEPT ![i] =
                                [component EXCEPT !.params[active_param_idx.n + 1] = cell_data]]]
                      ELSE [updated |-> FALSE, formula |-> formula_data]
                 ELSE [updated |-> FALSE, formula |-> formula_data]

\* handle_text_cell_selection: the formula store output and the selection-mode store
\* output
handle_text_cell_selection_NotFoundKeepsListening(active_cell, mode, formula_data, table) ==
    LET active_comp_id   == mode.active_component_id
        active_param_idx == mode.active_param_index
        ret(f, m)        == [formula |-> f, mode |-> m]
    IN  IF active_cell.k = "None" \/ active_comp_id.k = "None" \/ active_param_idx.k = "None"
        THEN IF active_comp_id.k # "None"
             THEN ret(no_update, Set(IDLE))
             ELSE ret(no_update, no_update)
        ELSE LET row_index == active_cell.row
                 col_id    == active_cell.column_id
             IN  IF row_index >= Len(table) \/ ~InCols(col_id)
                 THEN ret(no_update, Set(IDLE))
                 ELSE LET cell_value == RowGet(table[row_index + 1], col_id)
                          col_index  == ColIndex(col_id)
                          excel_ref  == get_excel_col_name(col_index) \o IntToStr(row_index + 1)
                          cell_data  == CellDict(PStr(excel_ref), cell_value)
                          res        == ResolveSlot(formula_data, active_comp_id, active_param_idx, cell_data)
                      IN  IF res.updated
                          THEN ret(Set(res.formula), Set(IDLE))
                          ELSE ret(no_update, no_update)

handle_text_cell_selection_KeepsListening(active_cell, mode, formula_data, table) ==
    LET active_comp_id   == mode.active_component_id
        active_param_idx == mode.active_param_index
        ret(f, m)        == [formula |-> f, mode |-> m]
    IN  IF active_cell.k = "None" \/ active_comp_id.k = "None" \/ active_param_idx.k = "None"
        THEN IF active_comp_id.k # "None"
             THEN ret(no_update, Set(IDLE))
             ELSE ret(no_update, no_update)
        ELSE LET row_index == active_cell.row
                 col_id    == active_cell.column_id
             IN  IF row_index >= Len(table) \/ ~InCols(col_id)
                 THEN ret(no_update, no_update)
                 ELSE LET cell_value == RowGet(table[row_index + 1], col_id)
                          col_index  == ColIndex(col_id)
                          excel_ref  == get_excel_col_name(col_index) \o IntToStr(row_index + 1)
                          cell_data  == CellDict(PStr(excel_ref), cell_value)
                          res        == ResolveSlot(formula_data, active_comp_id, active_param_idx, cell_data)
                      IN  IF res.updated
                          THEN ret(Set(res.formula), Set(IDLE))
                          ELSE ret(no_update, Set(IDLE))

handle_text_cell_selection(active_cell, mode, formula_data, table) ==
    LET active_comp_id   == mode.active_component_id
        active_param_idx == mode.active_param_index
        ret(f, m)        == [formula |-> f, mode |-> m]
    IN  IF active_cell.k = "None" \/ active_comp_id.k = "None" \/ active_param_idx.k = "None"
        THEN IF active_comp_id.k # "None"
             THEN ret(no_update, Set(IDLE))
             ELSE ret(no_update, no_update)
        ELSE LET row_index == active_cell.row
                 col_id    == active_cell.column_id
             IN  IF row_index >= Len(table) \/ ~InCols(col_id)
                 THEN ret(no_update, Set(IDLE))
                 ELSE LET cell_value == RowGet(table[row_index + 1], col_id)
                          col_index  == ColIndex(col_id)
                          excel_ref  == get_excel_col_name(col_index) \o IntToStr(row_index + 1)
                          cell_data  == CellDict(PStr(excel_ref), cell_value)
                          res        == ResolveSlot(formula_data, active_comp_id, active_param_idx, cell_data)
                      IN  IF res.updated
                          THEN ret(Set(res.formula), Set(IDLE))
                          ELSE ret(no_update, Set(IDLE))

ActiveCell(row, column_id) == [k |-> "dict", row |-> row, column_id |-> column_id]

\* 1-based position of the first component with this id and type, 0 if none
FirstWithIdAndType(formula_data, component_id, type) ==
    LET hits == {i \in 1..Len(formula_data) :
                    formula_data[i].id = component_id /\ formula_data[i].type = type}
    IN  IF hits = {} THEN 0 ELSE CHOOSE i \in hits : \A j \in hits : i <= j

\* the value a number input stores, without the conversion to int
NumFinalValue_Raw(triggered_value) == triggered_value

\* the value a number input stores, with 0 in place of None when int() raises
NumFinalValue_ZeroOnFailure(triggered_value) ==
    IF int(triggered_value).k = "int" THEN int(triggered_value) ELSE PInt(0)

\* the value a number input stores: int(value), None when int() raises
NumFinalValue(triggered_value) ==
    IF triggered_value.k = "None" THEN None
    ELSE IF int(triggered_value).k = "int" THEN int(triggered_value) ELSE None

\* handle_text_input_change: the formula store output
handle_text_input_change(triggered_id_dict, triggered_value, formula_data) ==
    LET ret(f) == f
    IN  IF triggered_value.k = "None" THEN ret(no_update)
        ELSE IF triggered_id_dict.type = "text-literal-input"
        THEN LET i == FirstWithIdAndType(formula_data, triggered_id_dict.index, "literal_string")
             IN  IF i # 0 /\ formula_data[i].value # triggered_value
                 THEN ret(Set([formula_data EXCEPT ![i].value = triggered_value]))
                 ELSE ret(no_update)
        ELSE IF triggered_id_dict.type \in {"text-num-input", "text-text-input"}
        THEN LET parts == RSplitDash(triggered_id_dict.index)
             IN  IF Len(parts) # 2 \/ int(PStr(parts[2])).k # "int"
                 THEN ret(no_update)
                 ELSE LET param_index == int(PStr(parts[2])).n
                          i == FirstWithIdAndType(formula_data, parts[1], "function")
                      IN  IF i = 0 THEN ret(no_update)
                          ELSE IF ~(0 <= param_index /\ param_index < Len(formula_data[i].params))
                          THEN ret(no_update)
                          ELSE LET final_value ==
                                       IF triggered_id_dict.type = "text-num-input"
                                       THEN NumFinalValue(triggered_value)
                                       ELSE triggered_value
                               IN  IF formula_data[i].params[param_index + 1] # final_value
                                   THEN ret(Set([formula_data EXCEPT
                                                    ![i].params[param_index + 1] = final_value]))
                                   ELSE ret(no_update)
        ELSE ret(no_update)

----------------------------------------------------------------------------
(* The evaluator *)

\* processed_params: a cell dict contributes its value, any other parameter itself
ProcessedParam(p_val) == IF p_val.k = "dict" THEN p_val.value ELSE p_val

\* the helper call of a complete function component
CallHelper(func_name, pp) ==
    CASE func_name = "LEFT"       -> excel_left(pp[1], pp[2])
      [] func_name = "RIGHT"      -> excel_right(pp[1], pp[2])
      [] func_name = "MID"        -> excel_mid(pp[1], pp[2], pp[3])
      [] func_name = "SUBSTITUTE" -> excel_substitute(pp[1], pp[2], pp[3])
      [] func_name = "TEXTBEFORE" -> excel_textbefore(pp[1], pp[2])
      [] func_name = "TEXTAFTER"  -> excel_textafter(pp[1], pp[2])
      [] OTHER                    -> MSG_UNKNOWN_FUNCTION \o NameChars(func_name) \o <<"'">>

\* the loop variables of calculate_text_formula_result before the first component
EvalStart == [current_result |-> <<>>, error_occurred |-> FALSE, calculation_performed |-> FALSE]

\* "Add the result if evaluation was successful"
EvalAdd(st, value_to_add) ==
    IF value_to_add.k # "None"
    THEN [st EXCEPT !.current_result = st.current_result \o _to_str_safe(value_to_add),
                    !.calculation_performed = TRUE]
    ELSE st

\* an error stops the calculation: error_occurred is set and current_result is
\* replaced by the message
EvalError_AppendsToPartial(st, message) ==
    [st EXCEPT !.error_occurred = TRUE, !.current_result = st.current_result \o message]

EvalError(st, message) ==
    [st EXCEPT !.error_occurred = TRUE, !.current_result = message]

\* "if error_occurred: continue"
StopOnFirstError_Never(st) == FALSE

StopOnFirstError(st) == st.error_occurred

\* any(p is None for p in params)
AnyParamIsNone_OnlyFirst(params) == params[1].k = "None"

AnyParamIsNone(params) == \E p \in 1..Len(params) : params[p].k = "None"

\* one iteration of the loop, on the component at 1-based position i
EvalStep(formula_data, i, st) ==
    LET component == formula_data[i]
        comp_type == component.type
    IN  IF StopOnFirstError(st) THEN st
        ELSE IF comp_type = "operator"
        THEN IF i = 1 \/ formula_data[i - 1].type = "operator"
             THEN EvalError(st, MSG_MISPLACED_OPERATOR)
             ELSE st
        ELSE IF i > 1 /\ formula_data[i - 1].type # "operator"
        THEN EvalError(st, MSG_MISSING_AMP \o NameChars(comp_type) \o MSG_COMPONENT_TAIL)
        ELSE IF comp_type = "literal_string"
        THEN EvalAdd(st, IF component.value.k = "None" THEN PStr(<<>>) ELSE component.value)
        ELSE IF comp_type = "cell_value"
        THEN IF component.value.k = "None" THEN st ELSE EvalAdd(st, component.value)
        ELSE IF comp_type = "function"
        THEN LET params == component.params
             IN  IF AnyParamIsNone(params)
                 THEN st
                 ELSE LET processed_params == [p \in 1..Len(params) |-> ProcessedParam(params[p])]
                          result_value     == CallHelper(component.name, processed_params)
                      IN  IF StartsWith(result_value, ERROR_PREFIX)
                          THEN EvalError(st, result_value)
                          ELSE EvalAdd(st, PStr(result_value))
        ELSE st

RECURSIVE EvalLoop(_, _, _)
EvalLoop(formula_data, i, st) ==
    IF i > Len(formula_data) THEN st
    ELSE EvalLoop(formula_data, i + 1, EvalStep(formula_data, i, st))

\* the final output formatting without the placeholder for "nothing contributed"
calculate_text_formula_result_NoPlaceholder(formula_data) ==
    IF formula_data = <<>> THEN MSG_RESULT_PREFIX
    ELSE LET st == EvalLoop(formula_data, 1, EvalStart)
         IN  IF st.error_occurred THEN st.current_result
             ELSE MSG_RESULT_PREFIX \o st.current_result

\* calculate_text_formula_result: the string shown in the result display
calculate_text_formula_result(formula_data) ==
    IF formula_data = <<>> THEN MSG_RESULT_PREFIX
    ELSE LET st == EvalLoop(formula_data, 1, EvalStart)
         IN  IF st.error_occurred THEN st.current_result
             ELSE IF ~st.calculation_performed THEN MSG_NO_OUTPUT_YET
             ELSE MSG_RESULT_PREFIX \o st.current_result

----------------------------------------------------------------------------
(* Events of the text tab *)

\* the row of the text table used by the model
TEXT_ROW_1 ==
    [seat  |-> PStr(<<"A", "K", "-", "A", "L">>),
     name  |-> PStr(<<"N", "i", "c", "k", " ", "B", "e", "g", "i", "c", "h">>),
     party |-> PStr(<<"R", "e", "p", "u", "b", "l", "i", "c", "a", "n">>)]

\* the tables the text DataTable may hold
TEXT_TABLES == {<<TEXT_ROW_1>>}

\* active_cell values a table click can deliver: none, a cell of the table,
\* a row past the end, a column that is not a text column
ACTIVE_CELLS(table) ==
    {None} \cup {ActiveCell(r, c) : r \in 0..Len(table), c \in {"party", "other"}}

\* values typed into text inputs (None: the input is empty)
TEXT_VALUES == {None, PStr(<<"-">>)}

\* a number input delivers None, a number, or whatever text a client sends
NUM_VALUES == {None, PInt(2), PFloat(5), PStr(<<"x">>)}

\* n_clicks of a text-cell-btn when its callback fires: 0 when the button was just rendered
N_CLICKS == {PInt(0), PInt(1)}

\* render_formula_display: the cell buttons on screen
CellButtons(formula_data) ==
    {formula_data[i].button_id : i \in {j \in 1..Len(formula_data) : formula_data[j].type = "cell_value"}}
    \cup {formula_data[i].param_ids[1] : i \in {j \in 1..Len(formula_data) : formula_data[j].type = "function"}}

\* render_formula_display: the text and number inputs on screen
Inputs(formula_data) ==
    {formula_data[i].input_id : i \in {j \in 1..Len(formula_data) : formula_data[j].type = "literal_string"}}
    \cup UNION {{formula_data[i].param_ids[p] : p \in 2..Len(formula_data[i].param_ids)} :
                   i \in {j \in 1..Len(formula_data) : formula_data[j].type = "function"}}

InputValues(input_id) == IF input_id.type = "text-num-input" THEN NUM_VALUES ELSE TEXT_VALUES

Wrote(ret) == ret.k = "set"

\* the names of the outputs a callback run wrote, from <<name, returned value>> pairs
WrittenOutputs(pairs) == {pairs[i][1] : i \in {j \in 1..Len(pairs) : Wrote(pairs[j][2])}}

\* no function applied yet
NO_CALL == [fn |-> "", args |-> <<>>, result |-> <<>>]

Init ==
    /\ formula = <<>>
    /\ selection_mode = IDLE
    /\ text_output = None
    /\ table_data \in TEXT_TABLES
    /\ next_uuid = 0
    /\ written = {}
    /\ call = NO_CALL
    /\ cond_selection_mode = [active_component_id |-> None]
    /\ if_param_store = [i \in 1..4 |-> None]
    /\ ifs_param_store = [i \in 1..7 |-> None]
    /\ if_results_display = <<"R", "e", "s", "u", "l", "t", "s", ":">>
    /\ ifs_results_display = <<"R", "e", "s", "u", "l", "t", "s", ":">>

\* the bounds of the model allow the formula new to be built from the current one
WithinBounds(new, max_len, max_uuid, max_functions) ==
    /\ Len(new) <= max_len
    /\ next_uuid < max_uuid
    /\ Cardinality({i \in 1..Len(new) : new[i].type = "function"}) <= max_functions

\* what the result display shows once a callback run is over: a write to the formula
\* store fires calculate_text_formula_result, whose output replaces the display
DisplayAfter_HandlerOutputStays(formula_out, new_formula, output_out) ==
    IF Wrote(output_out)
    THEN output_out.v
    ELSE IF Wrote(formula_out)
    THEN PStr(calculate_text_formula_result(new_formula))
    ELSE text_output

DisplayAfter(formula_out, new_formula, output_out) ==
    IF Wrote(formula_out)
    THEN PStr(calculate_text_formula_result(new_formula))
    ELSE ApplyOutput(text_output, output_out)

\* a run of update_formula_structure for one button click
UpdateFormulaStructure_ResetsMode(triggered_id, triggered_value) ==
    LET ret == update_formula_structure(triggered_id, triggered_value, formula, uuid4(next_uuid))
        new == ApplyOutput(formula, ret.formula)
    IN  /\ Len(new) > Len(formula) => WithinBounds(new, MaxLen, MaxUuid, MaxFunctions)
        /\ formula' = new
        /\ text_output' = DisplayAfter(ret.formula, new, ret.output)
        /\ next_uuid' = IF Len(new) > Len(formula) THEN next_uuid + 1 ELSE next_uuid
        /\ written' = WrittenOutputs(<<<<"formula", ret.formula>>, <<"output", ret.output>>>>)
        /\ selection_mode' = IF Len(new) < Len(formula) THEN IDLE ELSE selection_mode
        /\ UNCHANGED <<table_data, call, cond_vars>>

\* a run of update_formula_structure for one button click, within the given sizes
UpdateFormulaStructureWithin(triggered_id, triggered_value, max_len, max_uuid, max_functions) ==
    LET ret == update_formula_structure(triggered_id, triggered_value, formula, uuid4(next_uuid))
        new == ApplyOutput(formula, ret.formula)
    IN  /\ Len(new) > Len(formula) => WithinBounds(new, max_len, max_uuid, max_functions)
        /\ formula' = new
        /\ text_output' = DisplayAfter(ret.formula, new, ret.output)
        /\ next_uuid' = IF Len(new) > Len(formula) THEN next_uuid + 1 ELSE next_uuid
        /\ written' = WrittenOutputs(<<<<"formula", ret.formula>>, <<"output", ret.output>>>>)
        /\ UNCHANGED <<selection_mode, table_data, call, cond_vars>>

UpdateFormulaStructure(triggered_id, triggered_value) ==
    UpdateFormulaStructureWithin(triggered_id, triggered_value, MaxLen, MaxUuid, MaxFunctions)

AddComponent == \E t \in ADD_BUTTONS : UpdateFormulaStructure(AddBtn(t), PInt(1))

DeleteLast == UpdateFormulaStructure(DELETE_BTN, PInt(1))

ClearAll == UpdateFormulaStructure(CLEAR_BTN, PInt(1))

\* a run of activate_text_cell_selection for one cell button
ActivateStep(triggered_id, triggered_value) ==
    LET ret == activate_text_cell_selection(triggered_id, triggered_value, selection_mode)
    IN  /\ selection_mode' = ApplyOutput(selection_mode, ret)
        /\ written' = WrittenOutputs(<<<<"mode", ret>>>>)
        /\ UNCHANGED <<formula, text_output, table_data, next_uuid, call, cond_vars>>

ActivateTextCellSelection ==
    \E b \in CellButtons(formula), n \in N_CLICKS : ActivateStep(b, n)

\* a run of handle_text_cell_selection for one change of the table's active cell
CellSelectionStep(active_cell) ==
    LET ret == handle_text_cell_selection(active_cell, selection_mode, formula, table_data)
        new == ApplyOutput(formula, ret.formula)
    IN  /\ formula' = new
        /\ selection_mode' = ApplyOutput(selection_mode, ret.mode)
        /\ text_output' = DisplayAfter(ret.formula, new, no_update)
        /\ written' = WrittenOutputs(<<<<"formula", ret.formula>>, <<"mode", ret.mode>>>>)
        /\ UNCHANGED <<table_data, next_uuid, call, cond_vars>>

HandleTextCellSelection ==
    \E active_cell \in ACTIVE_CELLS(table_data) : CellSelectionStep(active_cell)

\* a run of handle_text_input_change for one input on screen
InputChangeStep(input_id, triggered_value) ==
    LET ret == handle_text_input_change(input_id, triggered_value, formula)
        new == ApplyOutput(formula, ret)
    IN  /\ formula' = new
        /\ text_output' = DisplayAfter(ret, new, no_update)
        /\ written' = WrittenOutputs(<<<<"formula", ret>>>>)
        /\ UNCHANGED <<selection_mode, table_data, next_uuid, call, cond_vars>>

HandleTextInputChange ==
    \E input_id \in Inputs(formula) : \E v \in InputValues(input_id) : InputChangeStep(input_id, v)

Next ==
    \/ AddComponent
    \/ DeleteLast
    \/ ClearAll
    \/ ActivateTextCellSelection
    \/ HandleTextCellSelection
    \/ HandleTextInputChange

Spec == Init /\ [][Next]_vars

----------------------------------------------------------------------------
(* The helper functions and the evaluator applied directly *)

\* longest text argument, largest count argument, longest component sequence
MaxTextLen == 3

MaxCount == 4

EvalMaxLen == 3

\* text arguments: every string over two characters, and the values _to_str_safe converts
HELPER_TEXTS ==
    {PStr(s) : s \in UNION {[1..n -> {"a", "b"}] : n \in 0..MaxTextLen}}
        \cup {None, NaN, PInt(7), PStr(<<"R", "o", "b", "e", "r", "t">>)}

\* longest delimiter, old text and new text argument
MaxDelimLen == 2

\* delimiter, old-text and new-text arguments
HELPER_DELIMS ==
    {PStr(s) : s \in UNION {[1..n -> {"a", "b"}] : n \in 0..MaxDelimLen}} \cup {None}

\* count arguments: integers, floats, numeric and other text, None and NaN
HELPER_NUMS ==
    {PInt(n) : n \in (0 - 2)..MaxCount}
        \cup {PFloat(3), PFloat(0 - 3), PStr(<<"2">>), PStr(<<"x">>), None, NaN}

\* the cell record of cell A1 of the text table
CELL_A1 == CellDict(PStr(<<"A", "1">>), TEXT_ROW_1.seat)

\* the components an evaluated sequence is made of: an operator, literals, cell
\* values and functions, unresolved, resolved and failing
EVAL_COMPONENTS(component_id) ==
    <<NewOperator(component_id),
      NewLiteral(component_id),
      [NewLiteral(component_id) EXCEPT !.value = PStr(<<"-">>)],
      NewCell(component_id),
      [NewCell(component_id) EXCEPT !.ref = CELL_A1.ref, !.value = CELL_A1.value],
      [NewFunction("LEFT", component_id) EXCEPT !.params = <<CELL_A1, None>>],
      [NewFunction("LEFT", component_id) EXCEPT !.params = <<CELL_A1, PInt(2)>>],
      [NewFunction("LEFT", component_id) EXCEPT !.params = <<CELL_A1, PInt(0 - 1)>>],
      [NewFunction("TEXTBEFORE", component_id) EXCEPT !.params = <<CELL_A1, PStr(<<"x">>)>>],
      [NewFunction("TEXTAFTER", component_id) EXCEPT !.params = <<CELL_A1, PStr(<<"-">>)>>],
      [NewFunction("SUBSTITUTE", component_id) EXCEPT
          !.params = <<CELL_A1, PStr(<<"A", "K", "-">>), PStr(ERROR_PREFIX)>>]>>

\* every sequence of up to EvalMaxLen such components, valid or not
EVAL_FORMULAS ==
    {[i \in 1..n |-> EVAL_COMPONENTS(uuid4(i - 1))[pick[i]]] :
        n \in 0..EvalMaxLen, pick \in [1..EvalMaxLen -> 1..Len(EVAL_COMPONENTS(<<>>))]}

\* one application of a function to arguments, recorded with its result
Applied(fn, args, result) ==
    /\ call = NO_CALL
    /\ call' = [fn |-> fn, args |-> args, result |-> result]
    /\ UNCHANGED <<formula, selection_mode, text_output, table_data, next_uuid, written, cond_vars>>

ApplyExcelLeft ==
    /\ call = NO_CALL
    /\ \E text \in HELPER_TEXTS, num_chars \in HELPER_NUMS :
           Applied("excel_left", <<text, num_chars>>, excel_left(text, num_chars))

ApplyExcelRight ==
    /\ call = NO_CALL
    /\ \E text \in HELPER_TEXTS, num_chars \in HELPER_NUMS :
           Applied("excel_right", <<text, num_chars>>, excel_right(text, num_chars))

ApplyExcelMid ==
    /\ call = NO_CALL
    /\ \E text \in HELPER_TEXTS, start_num \in HELPER_NUMS, num_chars \in HELPER_NUMS :
           Applied("excel_mid", <<text, start_num, num_chars>>, excel_mid(text, start_num, num_chars))

ApplyExcelSubstitute ==
    /\ call = NO_CALL
    /\ \E text \in HELPER_TEXTS, old_text \in HELPER_DELIMS, new_text \in HELPER_DELIMS :
           Applied("excel_substitute", <<text, old_text, new_text>>,
                   excel_substitute(text, old_text, new_text))

ApplyExcelTextBefore ==
    /\ call = NO_CALL
    /\ \E text \in HELPER_TEXTS, delimiter \in HELPER_DELIMS :
           Applied("excel_textbefore", <<text, delimiter>>, excel_textbefore(text, delimiter))

ApplyExcelTextAfter ==
    /\ call = NO_CALL
    /\ \E text \in HELPER_TEXTS, delimiter \in HELPER_DELIMS :
           Applied("excel_textafter", <<text, delimiter>>, excel_textafter(text, delimiter))

ApplyEvaluator ==
    /\ call = NO_CALL
    /\ \E formula_data \in EVAL_FORMULAS :
           Applied("calculate_text_formula_result", <<formula_data>>,
                   calculate_text_formula_result(formula_data))

NextFunctions ==
    \/ ApplyExcelLeft
    \/ ApplyExcelRight
    \/ ApplyExcelMid
    \/ ApplyExcelSubstitute
    \/ ApplyExcelTextBefore
    \/ ApplyExcelTextAfter
    \/ ApplyEvaluator

SpecFunctions == Init /\ [][NextFunctions]_vars

----------------------------------------------------------------------------
(* The events that build LEFT(party, 1) & "-" & TEXTBEFORE(seat, "-") *)

\* components and function components of the formula of the scenario
ScenarioLen == 5

ScenarioFunctions == 2

ScenarioAdd ==
    \E t \in {"LEFT", "&", "LITERAL", "TEXTBEFORE"} :
        UpdateFormulaStructureWithin(AddBtn(t), PInt(1), ScenarioLen, ScenarioLen, ScenarioFunctions)

ScenarioActivate == \E b \in CellButtons(formula) : ActivateStep(b, PInt(1))

ScenarioCellSelection ==
    \E column_id \in {"seat", "party"} : CellSelectionStep(ActiveCell(0, column_id))

ScenarioInputChange ==
    \E input_id \in Inputs(formula) :
        InputChangeStep(input_id, IF input_id.type = "text-num-input" THEN PInt(1) ELSE PStr(<<"-">>))

NextScenario ==
    \/ ScenarioAdd
    \/ ScenarioActivate
    \/ ScenarioCellSelection
    \/ ScenarioInputChange

SpecScenario == Init /\ [][NextScenario]_vars

----------------------------------------------------------------------------
(* The lookup and conditional exercises: column references and Calculate buttons *)

\* the most rows a loaded table has
MaxRows == 3

SEAT_COL == "seat"

NAME_COL == "name"

\* the columns of match.csv in file order: seat is column 0 and name column 1
original_match_cols_list == <<SEAT_COL, NAME_COL>>

\* the data frames read_csv can give for match.csv, row i holding index i - 1;
\* the text "x" can stand in both columns
MATCH_TABLES ==
    UNION {[1..n -> [seat : {<<"x">>, <<"y">>}, name : {<<"x">>, <<"z">>}]] : n \in 0..MaxRows}

\* list.index(col): 0-based position of col in cols
ListIndex(cols, col) == (CHOOSE i \in 1..Len(cols) : cols[i] = col) - 1

\* seatDict of load_data with the pandas index counted from 0
seatDict_ZeroBased(df_match) ==
    LET last(seat_val) == CHOOSE i \in 1..Len(df_match) :
                              /\ df_match[i].seat = seat_val
                              /\ \A j \in 1..Len(df_match) : df_match[j].seat = seat_val => j <= i
    IN  [seat_val \in {df_match[i].seat : i \in 1..Len(df_match)} |-> last(seat_val) - 1]

\* seatDict: seat -> row_num, where a later row overwrites an earlier one
seatDict(df_match) ==
    LET last(seat_val) == CHOOSE i \in 1..Len(df_match) :
                              /\ df_match[i].seat = seat_val
                              /\ \A j \in 1..Len(df_match) : df_match[j].seat = seat_val => j <= i
    IN  [seat_val \in {df_match[i].seat : i \in 1..Len(df_match)} |-> last(seat_val)]

\* nameDict: name -> row_num, where a later row overwrites an earlier one
nameDict(df_match) ==
    LET last(name_val) == CHOOSE i \in 1..Len(df_match) :
                              /\ df_match[i].name = name_val
                              /\ \A j \in 1..Len(df_match) : df_match[j].name = name_val => j <= i
    IN  [name_val \in {df_match[i].name : i \in 1..Len(df_match)} |-> last(name_val)]

\* rowDict with the name put before the seat
rowDict_NameFirst(df_match) ==
    [row_num \in 1..Len(df_match) |-> <<df_match[row_num].name, df_match[row_num].seat>>]

\* rowDict keyed by the pandas index instead of index + 1
rowDict_ZeroBased(df_match) ==
    [row_num \in 0..(Len(df_match) - 1) |->
        <<df_match[row_num + 1].seat, df_match[row_num + 1].name>>]

\* rowDict: row_num -> [seat_val, name_val]
rowDict(df_match) ==
    [row_num \in 1..Len(df_match) |-> <<df_match[row_num].seat, df_match[row_num].name>>]

\* dict.get(key, default) of a dict with str keys, rendered by the f-string
DictGetRowNum(d, key, default) ==
    IF key.k = "str" /\ key.s \in DOMAIN d THEN NatToStr(d[key.s]) ELSE default

calculate_match_result(df_match, lookup_value, match_store_data) ==
    LET selected_col_idx == match_store_data.array_col_index
        NA == <<"#","N","/","A"," ","(","n","o"," ","m","a","t","c","h"," ","f","o","u","n","d",")">>
        result_val ==
            IF selected_col_idx = None
                THEN <<"E","r","r","o","r",":"," ","S","e","l","e","c","t"," ","A","R","R","A","Y"," ",
                       "c","o","l","u","m","n",".">>
            ELSE IF lookup_value = None \/ lookup_value.s = <<>>
                THEN <<"E","r","r","o","r",":"," ","E","n","t","e","r"," ","V","A","L","U","E",".">>
            ELSE IF selected_col_idx = PInt(ListIndex(original_match_cols_list, SEAT_COL))
                THEN DictGetRowNum(seatDict(df_match), lookup_value, NA)
            ELSE IF selected_col_idx = PInt(ListIndex(original_match_cols_list, NAME_COL))
                THEN DictGetRowNum(nameDict(df_match), lookup_value, NA)
            ELSE <<"E","r","r","o","r",":"," ","I","n","v","a","l","i","d"," ","c","o","l","u","m","n"," ",
                   "s","e","l","e","c","t","e","d",".">>
    IN  <<"R","e","s","u","l","t",":"," ">> \o result_val

calculate_index_result(df_match, position_input, index_store_data) ==
    LET selected_col_idx == index_store_data.array_col_index
        position == int(position_input)
        NOT_POSITIVE == <<"E","r","r","o","r",":"," ","P","o","s","i","t","i","o","n"," ","m","u","s","t"," ",
                          "b","e"," ","a"," ","p","o","s","i","t","i","v","e"," ","n","u","m","b","e","r",".">>
        seat_idx == ListIndex(original_match_cols_list, SEAT_COL)
        name_idx == ListIndex(original_match_cols_list, NAME_COL)
        result_val ==
            IF selected_col_idx = None
                THEN <<"E","r","r","o","r",":"," ","S","e","l","e","c","t"," ","A","R","R","A","Y"," ",
                       "c","o","l","u","m","n",".">>
            ELSE IF position_input = None
                THEN <<"E","r","r","o","r",":"," ","E","n","t","e","r"," ","P","O","S","I","T","I","O","N"," ",
                       "n","u","m","b","e","r",".">>
            ELSE IF position = ValueError \/ position.n <= 0 THEN NOT_POSITIVE
            ELSE IF position.n \in DOMAIN rowDict(df_match)
                THEN LET row_data_list == rowDict(df_match)[position.n]
                     IN  IF selected_col_idx = PInt(seat_idx) THEN row_data_list[seat_idx + 1]
                         ELSE IF selected_col_idx = PInt(name_idx) THEN row_data_list[name_idx + 1]
                         ELSE <<"E","r","r","o","r",":"," ","I","n","v","a","l","i","d"," ","i","n","t","e","r",
                                "n","a","l"," ","c","o","l","u","m","n"," ","i","n","d","e","x",".">>
            ELSE <<"#","N","/","A"," ","(","p","o","s","i","t","i","o","n"," ">> \o NatToStr(position.n)
                     \o <<" ","n","o","t"," ","f","o","u","n","d",")">>
    IN  <<"R","e","s","u","l","t",":"," ">> \o result_val

\* the Calculate button of the MATCH exercise: the VALUE text box holds None or
\* a text, the section store None or the index of the selected column (0 or 1)
ApplyCalculateMatch ==
    /\ call = NO_CALL
    /\ \E df_match \in MATCH_TABLES,
          lookup_value \in {None, PStr(<<>>), PStr(<<"x">>), PStr(<<"y">>), PStr(<<"z">>), PStr(<<"X">>)},
          match_store_data \in [array_col_index : {None, PInt(0), PInt(1)}] :
           Applied("calculate_match_result", <<df_match, lookup_value, match_store_data>>,
                   calculate_match_result(df_match, lookup_value, match_store_data))

\* the Calculate button of the INDEX exercise: the POSITION number box holds None or a number
ApplyCalculateIndex ==
    /\ call = NO_CALL
    /\ \E df_match \in MATCH_TABLES,
          position_input \in {None, PFloat(3)} \cup {PInt(n) : n \in (0 - 1)..(MaxRows + 1)},
          index_store_data \in [array_col_index : {None, PInt(0), PInt(1)}] :
           Applied("calculate_index_result", <<df_match, position_input, index_store_data>>,
                   calculate_index_result(df_match, position_input, index_store_data))

BIOGUIDE_COL == "bioguide"

\* the columns of sheetB.csv in file order: the key column first, two more after it
original_b_cols_list == <<BIOGUIDE_COL, "name", "party">>

\* the data frames read_csv can give for sheetB.csv; a name cell can be blank,
\* and the text "x" can stand in the key and in the party column
SHEET_B_TABLES ==
    UNION {[1..n -> [bioguide : {PStr(<<"x">>), PStr(<<"y">>)}, name : {PStr(<<"p">>), NaN},
                    party : {PStr(<<"x">>)}]]
               : n \in 0..MaxRows}

\* the index of the key column taken to be the last column
BIOGUIDE_COL_INDEX_B_Last == Len(original_b_cols_list) - 1

\* bioguide_col_index of load_data
BIOGUIDE_COL_INDEX_B == ListIndex(original_b_cols_list, BIOGUIDE_COL)

\* sheetB_dict whose rows leave the key out
sheetB_dict_WithoutKey(df_b) ==
    LET last(key) == CHOOSE i \in 1..Len(df_b) :
                         /\ df_b[i].bioguide = key
                         /\ \A j \in 1..Len(df_b) : df_b[j].bioguide = key => j <= i
    IN  [key \in {df_b[i].bioguide : i \in 1..Len(df_b)} |->
            <<df_b[last(key)].name, df_b[last(key)].party>>]

\* sheetB_dict: bioguide -> row.tolist(), where a later row overwrites an earlier one
sheetB_dict(df_b) ==
    LET last(key) == CHOOSE i \in 1..Len(df_b) :
                         /\ df_b[i].bioguide = key
                         /\ \A j \in 1..Len(df_b) : df_b[j].bioguide = key => j <= i
    IN  [key \in {df_b[i].bioguide : i \in 1..Len(df_b)} |->
            <<df_b[last(key)].bioguide, df_b[last(key)].name, df_b[last(key)].party>>]

calculate_im_result(df_b, index_data, match1_data, match2_data) ==
    LET idx_param    == index_data.col_index
        m_param1_val == match1_data.cell_value
        m_param2_idx == match2_data.col_index
        found        == m_param1_val \in DOMAIN sheetB_dict(df_b)
        matched_row_list == sheetB_dict(df_b)[m_param1_val]
        shown(v)     == IF v = None THEN <<"N","o","n","e">> ELSE v.s
        result_val ==
            IF index_data = None \/ match1_data = None \/ match2_data = None
                THEN <<"E","r","r","o","r",":"," ","P","l","e","a","s","e"," ","s","e","l","e","c","t"," ",
                       "a","l","l"," ","p","a","r","t","s"," ","o","f"," ","t","h","e"," ",
                       "f","o","r","m","u","l","a",".">>
            ELSE IF m_param2_idx # BIOGUIDE_COL_INDEX_B
                THEN <<"E","r","r","o","r",":"," ","Y","o","u","r"," ","l","o","o","k","u","p"," ",
                       "c","o","l","u","m","n"," ","d","o","e","s"," ","n","o","t"," ",
                       "c","o","n","t","a","i","n"," ","t","h","e"," ","l","o","o","k","u","p"," ",
                       "v","a","l","u","e","."," ","T","r","y"," ","c","h","o","o","s","i","n","g"," ",
                       "a","n","o","t","h","e","r"," ","c","o","l","u","m","n",".">>
            ELSE IF ~found
                THEN <<"N","o"," ","m","a","t","c","h"," ","f","o","u","n","d"," ","f","o","r"," ","'">>
                         \o shown(m_param1_val) \o <<"'"," ","i","n"," ","'">>
                         \o original_b_cols_list[BIOGUIDE_COL_INDEX_B + 1]
                         \o <<"'"," ","c","o","l","u","m","n",".">>
            ELSE IF 0 <= idx_param /\ idx_param < Len(matched_row_list)
                THEN LET final_value == matched_row_list[idx_param + 1]
                     IN  IF final_value = NaN THEN <<"[","B","l","a","n","k","]">> ELSE final_value.s
            ELSE <<"E","r","r","o","r",":"," ","R","e","s","u","l","t"," ","c","o","l","u","m","n"," ",
                   "i","n","d","e","x"," ","(">> \o IntToStr(idx_param)
                     \o <<")"," ","o","u","t"," ","o","f"," ","b","o","u","n","d","s"," ","(","m","a","x"," ">>
                     \o IntToStr(Len(matched_row_list) - 1) \o <<")",".">>
    IN  <<"R","e","s","u","l","t",":"," ">> \o result_val

\* the Calculate button of the INDEX/MATCH exercise: each column store holds None
\* or the index of a Sheet B column, the value store None or the clicked Sheet A
\* cell with its value (None for a blank cell)
ApplyCalculateIm ==
    /\ call = NO_CALL
    /\ \E df_b \in SHEET_B_TABLES,
          index_data  \in {None} \cup [col_index : 0..(Len(original_b_cols_list) - 1)],
          match1_data \in {None} \cup [cell_value : {None, PStr(<<"x">>), PStr(<<"y">>), PStr(<<"z">>)}],
          match2_data \in {None} \cup [col_index : 0..(Len(original_b_cols_list) - 1)] :
           Applied("calculate_im_result", <<df_b, index_data, match1_data, match2_data>>,
                   calculate_im_result(df_b, index_data, match1_data, match2_data))

\* the data frames read_csv can give for conditional.csv, with at least the row
\* whose cells are clicked: the chamber is a text or a number, the seat has two
\* hyphens or none
COND_TABLES ==
    UNION {[1..n -> [name : {PStr(<<"N">>)}, chamber : {PStr(<<"H">>), PInt(1)},
                     seat : {PStr(<<"A", "-", "B", "-", "C">>), PStr(<<"A", "B">>)},
                     party : {PStr(<<"D", "e", "m">>)}]]
               : n \in 1..MaxRows}

\* str(value)
str(value) ==
    CASE value.k = "str"  -> value.s
      [] value.k = "int"  -> IntToStr(value.n)
      [] value.k = "nan"  -> <<"n", "a", "n">>
      [] value.k = "None" -> <<"N", "o", "n", "e">>

\* "\n".join(results_list)
RECURSIVE JoinLines(_)
JoinLines(results_list) ==
    IF Len(results_list) = 0 THEN <<>>
    ELSE IF Len(results_list) = 1 THEN results_list[1]
    ELSE results_list[1] \o <<"\n">> \o JoinLines(Tail(results_list))

calculate_if_results(df_conditional, param1_data, param2_val, param3_val, param4_val) ==
    IF param1_data = None \/ param2_val = None \/ param3_val = None \/ param4_val = None
        THEN <<"R","e","s","u","l","t","s",":"," ","E","r","r","o","r"," ","-"," ","P","l","e","a","s","e"," ",
               "f","i","l","l"," ","i","n"," ","a","l","l"," ","f","o","r","m","u","l","a"," ",
               "p","a","r","t","s"," ","u","s","i","n","g"," ","t","h","e"," ","f","i","r","s","t"," ",
               "r","o","w",".">>
    ELSE IF \E i \in 1..Len(df_conditional) : param1_data.column_id \notin DOMAIN df_conditional[i]
        THEN <<"R","e","s","u","l","t","s",":"," ","E","r","r","o","r"," ","-"," ","C","o","l","u","m","n"," ",
               "'">> \o NameChars(param1_data.column_id)
                 \o <<"'"," ","m","i","s","s","i","n","g"," ","i","n"," ","d","a","t","a",".">>
    ELSE
        LET logical_test_column == param1_data.column_id
            result_str(row) ==
                LET value_to_check == row[logical_test_column]
                    party_initial  == excel_left(row.party, PInt(1))
                    before         == excel_textbefore(row.seat, PStr(<<"-">>))
                    seat_info      == IF str(value_to_check) = str(param2_val) THEN str(row.seat)
                                      ELSE IF Find(before, <<"E","r","r","o","r",":">>) >= 0
                                          THEN str(row.seat)
                                      ELSE before
                    prefix         == IF str(value_to_check) = str(param2_val)
                                          THEN str(param3_val) ELSE str(param4_val)
                IN  prefix \o str(row.name) \o <<" ", "(">> \o party_initial \o <<"-">>
                        \o seat_info \o <<")">>
            results_list ==
                <<<<"R","e","s","u","l","t","s",":">>>>
                    \o [i \in 1..Len(df_conditional) |->
                           NatToStr(i) \o <<".", " ">> \o result_str(df_conditional[i])]
        IN  JoinLines(results_list)

\* the Calculate button of the IF exercise: the cell store holds None or a cell
\* with its column (also one the table does not have), the three text stores
\* None or a text
ApplyCalculateIf ==
    /\ call = NO_CALL
    /\ \E df_conditional \in COND_TABLES,
          param1_data \in {None} \cup [column_id : {"name", "chamber", "seat", "party", "gone"}],
          param2_val  \in {None, PStr(<<"H">>), PStr(<<"1">>)},
          param3_val  \in {None, PStr(<<"R", " ">>)},
          param4_val  \in {None, PStr(<<"S", " ">>)} :
           Applied("calculate_if_results",
                   <<df_conditional, param1_data, param2_val, param3_val, param4_val>>,
                   calculate_if_results(df_conditional, param1_data, param2_val, param3_val, param4_val))

\* IFS that tests the second branch before the first
calculate_ifs_results_SecondFirst(df_conditional, p1, p2, p3, p4, p5, p6, p7) ==
    IF p1 = None \/ p2 = None \/ p3 = None \/ p4 = None \/ p5 = None \/ p6 = None \/ p7 = None
        THEN <<"R","e","s","u","l","t","s",":"," ","E","r","r","o","r"," ","-"," ","P","l","e","a","s","e"," ",
               "f","i","l","l"," ","i","n"," ","a","l","l"," ","f","o","r","m","u","l","a"," ",
               "p","a","r","t","s",".">>
    ELSE IF \E i \in 1..Len(df_conditional) : p1.column_id \notin DOMAIN df_conditional[i]
        THEN <<"R","e","s","u","l","t","s",":"," ","E","r","r","o","r"," ","-"," ","C","o","l","u","m","n"," ",
               "'">> \o NameChars(p1.column_id)
                 \o <<"'"," ","m","i","s","s","i","n","g"," ","i","n"," ","d","a","t","a",".">>
    ELSE
        LET result_val(row) ==
                IF str(row[p1.column_id]) = str(p5) THEN str(p6)
                ELSE IF str(row[p1.column_id]) = str(p2) THEN str(p3)
                ELSE str(p7)
        IN  JoinLines(<<<<"R","e","s","u","l","t","s",":">>>>
                          \o [i \in 1..Len(df_conditional) |->
                                 NatToStr(i) \o <<".", " ">> \o result_val(df_conditional[i])])

\* IFS that leaves a row out when a text part is unset instead of failing
calculate_ifs_results_ChecksCellsOnly(df_conditional, p1, p2, p3, p4, p5, p6, p7) ==
    IF p1 = None \/ p4 = None
        THEN <<"R","e","s","u","l","t","s",":"," ","E","r","r","o","r"," ","-"," ","P","l","e","a","s","e"," ",
               "f","i","l","l"," ","i","n"," ","a","l","l"," ","f","o","r","m","u","l","a"," ",
               "p","a","r","t","s",".">>
    ELSE IF \E i \in 1..Len(df_conditional) : p1.column_id \notin DOMAIN df_conditional[i]
        THEN <<"R","e","s","u","l","t","s",":"," ","E","r","r","o","r"," ","-"," ","C","o","l","u","m","n"," ",
               "'">> \o NameChars(p1.column_id)
                 \o <<"'"," ","m","i","s","s","i","n","g"," ","i","n"," ","d","a","t","a",".">>
    ELSE
        LET result_val(row) ==
                IF str(row[p1.column_id]) = str(p2) THEN str(p3)
                ELSE IF str(row[p1.column_id]) = str(p5) THEN str(p6)
                ELSE str(p7)
        IN  JoinLines(<<<<"R","e","s","u","l","t","s",":">>>>
                          \o [i \in 1..Len(df_conditional) |->
                                 NatToStr(i) \o <<".", " ">> \o result_val(df_conditional[i])])

calculate_ifs_results(df_conditional, p1, p2, p3, p4, p5, p6, p7) ==
    IF p1 = None \/ p2 = None \/ p3 = None \/ p4 = None \/ p5 = None \/ p6 = None \/ p7 = None
        THEN <<"R","e","s","u","l","t","s",":"," ","E","r","r","o","r"," ","-"," ","P","l","e","a","s","e"," ",
               "f","i","l","l"," ","i","n"," ","a","l","l"," ","f","o","r","m","u","l","a"," ",
               "p","a","r","t","s",".">>
    ELSE IF \E i \in 1..Len(df_conditional) : p1.column_id \notin DOMAIN df_conditional[i]
        THEN <<"R","e","s","u","l","t","s",":"," ","E","r","r","o","r"," ","-"," ","C","o","l","u","m","n"," ",
               "'">> \o NameChars(p1.column_id)
                 \o <<"'"," ","m","i","s","s","i","n","g"," ","i","n"," ","d","a","t","a",".">>
    ELSE
        LET logical_test_column == p1.column_id
            result_val(row) ==
                LET value_to_check == row[logical_test_column]
                IN  IF str(value_to_check) = str(p2) THEN str(p3)
                    ELSE IF str(value_to_check) = str(p5) THEN str(p6)
                    ELSE str(p7)
            results_list ==
                <<<<"R","e","s","u","l","t","s",":">>>>
                    \o [i \in 1..Len(df_conditional) |->
                           NatToStr(i) \o <<".", " ">> \o result_val(df_conditional[i])]
        IN  JoinLines(results_list)

\* the three rows of the party scenario
PARTY_TABLE ==
    [i \in 1..3 |->
        [name |-> PStr(<<"N">>), chamber |-> PStr(<<"H">>), seat |-> PStr(<<"A", "B">>),
         party |-> <<PStr(<<"D","e","m","o","c","r","a","t">>),
                     PStr(<<"R","e","p","u","b","l","i","c","a","n">>),
                     PStr(<<"I","n","d","e","p","e","n","d","e","n","t">>)>>[i]]]

\* the Calculate button of the IFS exercise: the two cell stores hold None or the
\* same cell, the five text stores None or a text; once more with the branches
\* Democrat -> blue, Republican -> red and the default yellow on the party column
ApplyCalculateIfs ==
    /\ call = NO_CALL
    /\ \/ \E df_conditional \in {t \in COND_TABLES : Len(t) < MaxRows},
             p1 \in {None} \cup [column_id : {"chamber", "party", "gone"}],
             p2 \in {None, PStr(<<"H">>), PStr(<<"1">>)},
             p3 \in {None, PStr(<<"b">>)},
             p5 \in {None, PStr(<<"H">>), PStr(<<"1">>)},
             p6 \in {None, PStr(<<"r">>)},
             p7 \in {None, PStr(<<"y">>)} :
              Applied("calculate_ifs_results", <<df_conditional, p1, p2, p3, p1, p5, p6, p7>>,
                      calculate_ifs_results(df_conditional, p1, p2, p3, p1, p5, p6, p7))
       \/ LET p1 == [column_id |-> "party"]
              p2 == PStr(<<"D","e","m","o","c","r","a","t">>)
              p3 == PStr(<<"b","l","u","e">>)
              p5 == PStr(<<"R","e","p","u","b","l","i","c","a","n">>)
              p6 == PStr(<<"r","e","d">>)
              p7 == PStr(<<"y","e","l","l","o","w">>)
          IN  Applied("calculate_ifs_results", <<PARTY_TABLE, p1, p2, p3, p1, p5, p6, p7>>,
                      calculate_ifs_results(PARTY_TABLE, p1, p2, p3, p1, p5, p6, p7))

\* the largest column index a reference is computed for
MaxColIndex == 703

\* handle_match_column_selection: the button text output and the store output;
\* selected_columns is None or a list, held in the field items
handle_match_column_selection(selected_columns, current_store_data) ==
    LET active_button == current_store_data.active_button
        ret(children, data) == [children |-> children, data |-> data]
        reset == [current_store_data EXCEPT !.active_button = None]
    IN  IF active_button # PStr(NameChars("activate-match-array")) \/ selected_columns = None
           \/ selected_columns.items = <<>> \/ original_match_cols_list = <<>>
        THEN ret(no_update, no_update)
        ELSE LET selected_col_id == selected_columns.items[1]
             IN  IF \A i \in 1..Len(original_match_cols_list) :
                        original_match_cols_list[i] # selected_col_id
                 THEN ret(no_update, Set(reset))
                 ELSE LET col_index     == ListIndex(original_match_cols_list, selected_col_id)
                          col_letter    == get_excel_col_name(col_index)
                          excel_col_ref == col_letter \o <<":">> \o col_letter
                      IN  IF col_index \notin {0, 1} THEN ret(no_update, Set(reset))
                          ELSE ret(Set(excel_col_ref),
                                   Set([active_button   |-> None,
                                        array_col_index |-> PInt(col_index),
                                        array_excel_ref |-> PStr(excel_col_ref)]))

ApplyGetExcelColName ==
    /\ call = NO_CALL
    /\ \E n \in (0 - 1)..MaxColIndex :
           Applied("get_excel_col_name", <<n>>, get_excel_col_name(n))

\* a click on a cell of a two-row text table while the only component, a cell
\* component, is listening
ApplyHandleTextCellSelection ==
    /\ call = NO_CALL
    /\ \E row \in 0..2, column_id \in {"seat", "name", "party", "other"} :
           LET active_cell == ActiveCell(row, column_id)
               mode        == Listening(uuid4(1), PStr(STR_CELL))
               table       == <<TEXT_ROW_1, TEXT_ROW_1>>
           IN  Applied("handle_text_cell_selection",
                       <<active_cell, mode, <<NewCell(uuid4(1))>>, table>>,
                       handle_text_cell_selection(active_cell, mode, <<NewCell(uuid4(1))>>, table))

\* a column selection in the match table, with the ARRAY button listening or not
ApplyHandleMatchColumnSelection ==
    /\ call = NO_CALL
    /\ \E selected_columns \in {None} \cup [items : {<<>>, <<"seat">>, <<"name">>, <<"other">>}],
          active_button \in {None, PStr(NameChars("activate-match-array"))},
          array_col_index \in {None, PInt(0), PInt(1)} :
           LET current_store_data ==
                   [active_button   |-> active_button,
                    array_col_index |-> array_col_index,
                    array_excel_ref |-> IF array_col_index = None THEN None
                                        ELSE PStr(get_excel_col_name(array_col_index.n) \o <<":">>
                                                      \o get_excel_col_name(array_col_index.n))]
           IN  Applied("handle_match_column_selection",
                       <<selected_columns, current_store_data>>,
                       handle_match_column_selection(selected_columns, current_store_data))

NextCalculate ==
    \/ ApplyCalculateMatch
    \/ ApplyCalculateIndex
    \/ ApplyCalculateIm
    \/ ApplyCalculateIf
    \/ ApplyCalculateIfs
    \/ ApplyGetExcelColName
    \/ ApplyHandleTextCellSelection
    \/ ApplyHandleMatchColumnSelection

SpecCalculate == Init /\ [][NextCalculate]_vars

----------------------------------------------------------------------------

(* The conditional tab: cell buttons, cell clicks, text inputs and Clear *)

\* the columns of the conditional table, in file order
original_conditional_cols_list == <<"name", "chamber", "seat", "party">>

\* the cells the conditional DataTable can report as active, None when it has none
COND_ACTIVE_CELLS ==
    {None} \cup {ActiveCell(row, column_id) :
                    row \in 0..(MaxRows - 1), column_id \in {"chamber", "party", "gone"}}

\* activate_conditional_cell_selection for every cell button and click count
activate_conditional_cell_selection ==
    \E triggered_id \in {[k |-> "dict", type |-> "cond-cell-btn", formula |-> "if", param |-> 1],
                        [k |-> "dict", type |-> "cond-cell-btn", formula |-> "ifs", param |-> 1],
                        [k |-> "dict", type |-> "cond-cell-btn", formula |-> "ifs", param |-> 4]},
       triggered_value \in {None} \cup N_CLICKS :
        LET ret == IF triggered_value = None \/ triggered_value = PInt(0)
                   THEN no_update
                   ELSE Set([active_component_id |-> triggered_id])
        IN  /\ cond_selection_mode' = ApplyOutput(cond_selection_mode, ret)
            /\ written' = WrittenOutputs(<<<<"cond-mode", ret>>>>)
            /\ UNCHANGED <<formula, selection_mode, text_output, table_data, next_uuid, call,
                           if_param_store, ifs_param_store, if_results_display,
                           ifs_results_display>>

\* the handler binding the clicked cell of any row
handle_conditional_cell_selection_AnyRow(active_cell, mode, df_conditional) ==
    LET active_button_id == mode.active_component_id
        reset_mode       == [active_component_id |-> None]
        ret(a, b, c, m)  == [if1 |-> a, ifs1 |-> b, ifs4 |-> c, mode |-> m]
        rejected         == ret(no_update, no_update, no_update, Set(reset_mode))
    IN  IF active_cell.k = "None" \/ active_button_id.k = "None"
        THEN IF active_button_id.k # "None" THEN rejected
             ELSE ret(no_update, no_update, no_update, no_update)
        ELSE LET row_index == active_cell.row
                 col_id    == active_cell.column_id
             IN  IF \A i \in 1..Len(original_conditional_cols_list) :
                        original_conditional_cols_list[i] # col_id
                 THEN rejected
                 ELSE IF row_index >= Len(df_conditional) THEN rejected
                 ELSE LET cell_value == df_conditional[row_index + 1][col_id]
                          col_index  == ListIndex(original_conditional_cols_list, col_id)
                          excel_ref  == get_excel_col_name(col_index) \o IntToStr(row_index + 1)
                          cell_data  == [k |-> "dict", ref |-> PStr(excel_ref),
                                         value |-> cell_value, column_id |-> col_id]
                      IN  IF active_button_id.formula = "if" /\ active_button_id.param = 1
                          THEN ret(Set(cell_data), no_update, no_update, Set(reset_mode))
                          ELSE IF active_button_id.formula = "ifs"
                                  /\ active_button_id.param \in {1, 4}
                          THEN ret(no_update, Set(cell_data), Set(cell_data), Set(reset_mode))
                          ELSE rejected

\* the handler writing only the store of the IFS button that was activated
handle_conditional_cell_selection_OnlyActivated(active_cell, mode, df_conditional) ==
    LET active_button_id == mode.active_component_id
        reset_mode       == [active_component_id |-> None]
        ret(a, b, c, m)  == [if1 |-> a, ifs1 |-> b, ifs4 |-> c, mode |-> m]
        rejected         == ret(no_update, no_update, no_update, Set(reset_mode))
    IN  IF active_cell.k = "None" \/ active_button_id.k = "None"
        THEN IF active_button_id.k # "None" THEN rejected
             ELSE ret(no_update, no_update, no_update, no_update)
        ELSE IF active_cell.row # 0 THEN rejected
        ELSE LET row_index == active_cell.row
                 col_id    == active_cell.column_id
             IN  IF \A i \in 1..Len(original_conditional_cols_list) :
                        original_conditional_cols_list[i] # col_id
                 THEN rejected
                 ELSE IF row_index >= Len(df_conditional) THEN rejected
                 ELSE LET cell_value == df_conditional[row_index + 1][col_id]
                          col_index  == ListIndex(original_conditional_cols_list, col_id)
                          excel_ref  == get_excel_col_name(col_index) \o IntToStr(row_index + 1)
                          cell_data  == [k |-> "dict", ref |-> PStr(excel_ref),
                                         value |-> cell_value, column_id |-> col_id]
                      IN  IF active_button_id.formula = "if" /\ active_button_id.param = 1
                          THEN ret(Set(cell_data), no_update, no_update, Set(reset_mode))
                          ELSE IF active_button_id.formula = "ifs" /\ active_button_id.param = 1
                          THEN ret(no_update, Set(cell_data), no_update, Set(reset_mode))
                          ELSE IF active_button_id.formula = "ifs" /\ active_button_id.param = 4
                          THEN ret(no_update, no_update, Set(cell_data), Set(reset_mode))
                          ELSE rejected

\* handle_conditional_cell_selection: the outputs for the IF store 1, the IFS stores
\* 1 and 4 and the selection-mode store; a failing table lookup is caught and
\* resets the mode
handle_conditional_cell_selection(active_cell, mode, df_conditional) ==
    LET active_button_id == mode.active_component_id
        reset_mode       == [active_component_id |-> None]
        ret(a, b, c, m)  == [if1 |-> a, ifs1 |-> b, ifs4 |-> c, mode |-> m]
        rejected         == ret(no_update, no_update, no_update, Set(reset_mode))
    IN  IF active_cell.k = "None" \/ active_button_id.k = "None"
        THEN IF active_button_id.k # "None" THEN rejected
             ELSE ret(no_update, no_update, no_update, no_update)
        ELSE IF active_cell.row # 0 THEN rejected
        ELSE LET row_index == active_cell.row
                 col_id    == active_cell.column_id
             IN  IF \A i \in 1..Len(original_conditional_cols_list) :
                        original_conditional_cols_list[i] # col_id
                 THEN rejected
                 ELSE IF row_index >= Len(df_conditional) THEN rejected
                 ELSE LET cell_value == df_conditional[row_index + 1][col_id]
                          col_index  == ListIndex(original_conditional_cols_list, col_id)
                          excel_ref  == get_excel_col_name(col_index) \o IntToStr(row_index + 1)
                          cell_data  == [k |-> "dict", ref |-> PStr(excel_ref),
                                         value |-> cell_value, column_id |-> col_id]
                      IN  IF active_button_id.formula = "if" /\ active_button_id.param = 1
                          THEN ret(Set(cell_data), no_update, no_update, Set(reset_mode))
                          ELSE IF active_button_id.formula = "ifs"
                                  /\ active_button_id.param \in {1, 4}
                          THEN ret(no_update, Set(cell_data), Set(cell_data), Set(reset_mode))
                          ELSE rejected

\* a run of handle_conditional_cell_selection for one change of the table's active cell
CondCellSelectionStep(active_cell) ==
    LET ret == handle_conditional_cell_selection(active_cell, cond_selection_mode, PARTY_TABLE)
    IN  /\ if_param_store' = [if_param_store EXCEPT ![1] = ApplyOutput(@, ret.if1)]
        /\ ifs_param_store' = [ifs_param_store EXCEPT ![1] = ApplyOutput(@, ret.ifs1),
                                                      ![4] = ApplyOutput(@, ret.ifs4)]
        /\ cond_selection_mode' = ApplyOutput(cond_selection_mode, ret.mode)
        /\ written' = WrittenOutputs(<<<<"if-1", ret.if1>>, <<"ifs-1", ret.ifs1>>,
                                       <<"ifs-4", ret.ifs4>>, <<"cond-mode", ret.mode>>>>)
        /\ UNCHANGED <<formula, selection_mode, text_output, table_data, next_uuid, call,
                       if_results_display, ifs_results_display>>

HandleConditionalCellSelection ==
    \E active_cell \in COND_ACTIVE_CELLS : CondCellSelectionStep(active_cell)

\* handle_conditional_input_change for every text input: the triggering value goes
\* to the store output_map names, every other output is no_update
handle_conditional_input_change ==
    \E triggered_id \in
           {[type |-> "cond-text-input", formula |-> "if", param |-> p] : p \in {2, 3, 4}}
           \cup {[type |-> "cond-text-input", formula |-> "ifs", param |-> p] : p \in {2, 3, 5, 6, 7}},
       triggered_value \in {PStr(<<"H">>)} :
        LET out(formula_type, param_index) ==
                IF triggered_id.formula = formula_type /\ triggered_id.param = param_index
                THEN Set(triggered_value) ELSE no_update
        IN  /\ if_param_store' = [if_param_store EXCEPT
                                     ![2] = ApplyOutput(@, out("if", 2)),
                                     ![3] = ApplyOutput(@, out("if", 3)),
                                     ![4] = ApplyOutput(@, out("if", 4))]
            /\ ifs_param_store' = [ifs_param_store EXCEPT
                                      ![2] = ApplyOutput(@, out("ifs", 2)),
                                      ![3] = ApplyOutput(@, out("ifs", 3)),
                                      ![5] = ApplyOutput(@, out("ifs", 5)),
                                      ![6] = ApplyOutput(@, out("ifs", 6)),
                                      ![7] = ApplyOutput(@, out("ifs", 7))]
            /\ written' = {<<triggered_id.formula, triggered_id.param>>}
            /\ UNCHANGED <<formula, selection_mode, text_output, table_data, next_uuid, call,
                           cond_selection_mode, if_results_display, ifs_results_display>>

\* clear_conditional_formulas for a click on Clear IF or on Clear IFS
clear_conditional_formulas ==
    \E triggered_id \in {"clear-if-button", "clear-ifs-button"} :
        /\ IF triggered_id = "clear-if-button"
           THEN /\ if_param_store' = [i \in 1..4 |-> None]
                /\ if_results_display' = <<"R", "e", "s", "u", "l", "t", "s", ":">>
                /\ UNCHANGED <<ifs_param_store, ifs_results_display>>
           ELSE /\ ifs_param_store' = [i \in 1..7 |-> None]
                /\ ifs_results_display' = <<"R", "e", "s", "u", "l", "t", "s", ":">>
                /\ UNCHANGED <<if_param_store, if_results_display>>
        /\ written' = {triggered_id}
        /\ UNCHANGED <<formula, selection_mode, text_output, table_data, next_uuid, call,
                       cond_selection_mode>>

\* The Calculate callbacks of this tab read the parameter stores and write only the
\* result displays; calculate_if_results and calculate_ifs_results are applied to
\* store contents in SpecCalculate.
NextConditional ==
    \/ activate_conditional_cell_selection
    \/ HandleConditionalCellSelection
    \/ handle_conditional_input_change
    \/ clear_conditional_formulas

SpecConditional == Init /\ [][NextConditional]_vars

----------------------------------------------------------------------------

(* Properties of the formula sequence and the selection mode *)

IsValueComponent(c) == c.type \in {"literal_string", "cell_value", "function"}

\* C1: after any sequence of events the formula sequence never starts with an
\* operator, never has two adjacent operators and never has two adjacent value
\* components.
C1_AdjacencyInvariant ==
    /\ formula # <<>> => formula[1].type # "operator"
    /\ \A i \in 1..(Len(formula) - 1) :
          /\ ~(formula[i].type = "operator" /\ formula[i + 1].type = "operator")
          /\ ~(IsValueComponent(formula[i]) /\ IsValueComponent(formula[i + 1]))

\* a function with a selected cell followed by an operator: built by add, cell
\* selection and add events
C1_Witness ==
    /\ Len(formula) = 2
    /\ formula[1].type = "function"
    /\ formula[1].params[1].k = "dict"
    /\ formula[2].type = "operator"

\* the type of the last component, "" for the empty sequence
LastType(f) == IF f = <<>> THEN "" ELSE f[Len(f)].type

\* the positions at which the add button t must be refused
MustReject(t, f) ==
    IF t = "&" THEN f = <<>> \/ LastType(f) = "operator"
    ELSE f # <<>> /\ LastType(f) # "operator"

\* the component type the add button t creates
TypeOfButton(t) ==
    CASE t = "&"       -> "operator"
      [] t = "LITERAL" -> "literal_string"
      [] t = "CELL"    -> "cell_value"
      [] OTHER         -> "function"

\* C2: an add-component event is rejected (formula not written, an error message
\* shown) exactly when it adds '&' first or after an operator, or a value component
\* after a value component; otherwise the component is appended and the earlier
\* components are unchanged.
C2_AddRejectedExactlyWhenMisplaced ==
    [][\A t \in ADD_BUTTONS :
          UpdateFormulaStructure(AddBtn(t), PInt(1)) =>
              IF MustReject(t, formula)
              THEN /\ formula' = formula
                   /\ "formula" \notin written'
                   /\ text_output'.k = "str"
                   /\ StartsWith(text_output'.s, ERROR_PREFIX)
              ELSE /\ Len(formula') = Len(formula) + 1
                   /\ \A i \in 1..Len(formula) : formula'[i] = formula[i]
                   /\ formula'[Len(formula')].type = TypeOfButton(t)
                   /\ t \in FUNCTION_NAMES => formula'[Len(formula')].name = t]_vars

\* an add of MID was refused after a value component
C2_Witness ==
    /\ written = {"output"}
    /\ formula # <<>>
    /\ text_output = PStr(MSG_CANNOT_ADD \o NameChars("MID") \o MSG_CANNOT_ADD_TAIL)

\* 1-based position of the component that carries the cell button b
ButtonOwner(f, b) ==
    CHOOSE i \in 1..Len(f) :
        \/ f[i].type = "cell_value" /\ f[i].button_id = b
        \/ f[i].type = "function" /\ f[i].param_ids[1] = b

\* the listening state that names the slot of the cell button b: the whole value of
\* a cell_value component, parameter 0 of a function
SlotOf(f, b) ==
    LET c == f[ButtonOwner(f, b)]
    IN  IF c.type = "cell_value"
        THEN Listening(c.id, PStr(STR_CELL))
        ELSE Listening(c.id, PInt(0))

\* C3: activating the capture control of a slot while the mode is Idle or Listening
\* on a different slot sets the mode to Listening on that slot, overwriting the
\* prior state; the mode names one component and one slot, or none.
C3_ActivationOverwrites ==
    [][/\ \A b \in CellButtons(formula) :
             (ActivateStep(b, PInt(1)) /\ selection_mode # SlotOf(formula, b)) =>
                 /\ selection_mode' = SlotOf(formula, b)
                 /\ "mode" \in written'
       /\ selection_mode'.active_component_id.k = "None"
             <=> selection_mode'.active_param_index.k = "None"]_vars

\* two capture controls on screen and the mode listening on the second one
C3_Witness ==
    /\ Len(formula) = 3
    /\ formula[1].type = "cell_value"
    /\ formula[3].type = "function"
    /\ selection_mode = Listening(formula[3].id, PInt(0))
    /\ written = {"mode"}

\* the Excel-style reference of a clicked cell of the text table
ExpectedRef(active_cell) ==
    LET letter == CASE active_cell.column_id = "seat"  -> "A"
                    [] active_cell.column_id = "name"  -> "B"
                    [] active_cell.column_id = "party" -> "C"
    IN  <<letter, DIGITS[active_cell.row + 2]>>

\* the click names a cell of the table
ValidTarget(active_cell) ==
    /\ active_cell.k # "None"
    /\ active_cell.row < Len(table_data)
    /\ active_cell.column_id \in {"seat", "name", "party"}

\* the component and slot the mode is listening on, 0 if the formula has none
ListeningPosition ==
    LET hits == {i \in 1..Len(formula) :
                    /\ PStr(formula[i].id) = selection_mode.active_component_id
                    /\ \/ /\ selection_mode.active_param_index = PStr(STR_CELL)
                          /\ formula[i].type = "cell_value"
                       \/ /\ selection_mode.active_param_index.k = "int"
                          /\ formula[i].type = "function"
                          /\ selection_mode.active_param_index.n \in 0..(Len(formula[i].params) - 1)}
    IN  IF hits = {} THEN 0 ELSE CHOOSE i \in hits : TRUE

\* C4: a cell selected while the mode is Listening(c, k) and c exists with that slot
\* sets the slot to the cell's Excel-style reference and value, and the mode becomes
\* Idle in the same step.
C4_SelectionResolvesSlot ==
    [][\A ac \in ACTIVE_CELLS(table_data) :
          (CellSelectionStep(ac) /\ ValidTarget(ac) /\ ListeningPosition # 0) =>
              LET i     == ListeningPosition
                  ref   == PStr(ExpectedRef(ac))
                  value == table_data[ac.row + 1][ac.column_id]
              IN  /\ selection_mode' = IDLE
                  /\ Len(formula') = Len(formula)
                  /\ IF formula[i].type = "cell_value"
                     THEN formula'[i].ref = ref /\ formula'[i].value = value
                     ELSE formula'[i].params[selection_mode.active_param_index.n + 1]
                              = [k |-> "dict", ref |-> ref, value |-> value]]_vars

\* parameter 0 of a function holds cell C1 of the table and the mode is Idle again
C4_Witness ==
    /\ formula # <<>>
    /\ formula[1].type = "function"
    /\ formula[1].params[1] = [k |-> "dict", ref |-> PStr(<<"C", "1">>), value |-> TEXT_ROW_1.party]
    /\ selection_mode = IDLE
    /\ written = {"formula", "mode"}

\* C5: while Listening, a click outside a valid target (no active cell, a row past
\* the table's end, a column not in the table), and any click that resolves nothing,
\* sets the mode to Idle and leaves the formula sequence unchanged.
C5_InvalidClickResets ==
    [][\A ac \in ACTIVE_CELLS(table_data) :
          (CellSelectionStep(ac) /\ selection_mode # IDLE) =>
              /\ ~ValidTarget(ac) => "formula" \notin written'
              /\ "formula" \notin written' =>
                    /\ selection_mode' = IDLE
                    /\ formula' = formula
                    /\ written' = {"mode"}]_vars

\* the mode was reset while a cell_value component is still unresolved
C5_Witness ==
    /\ formula # <<>>
    /\ formula[1].type = "cell_value"
    /\ formula[1].ref = None
    /\ selection_mode = IDLE
    /\ written = {"mode"}

\* the mode is listening on a component that is no longer in the formula
StaleTarget ==
    /\ selection_mode # IDLE
    /\ \A i \in 1..Len(formula) : PStr(formula[i].id) # selection_mode.active_component_id

\* C6: when the component the mode is listening on was removed before the table
\* click arrives, also when components were added again, the click changes no
\* component, shows no error and the mode becomes Idle.
C6_StaleTargetClickIsSilent ==
    [][\A ac \in ACTIVE_CELLS(table_data) :
          (CellSelectionStep(ac) /\ StaleTarget) =>
              /\ formula' = formula
              /\ text_output' = text_output
              /\ selection_mode' = IDLE]_vars

\* the mode was reset by a click although no component on screen has a capture
\* control: its target had been removed and a literal added again
C6_Witness ==
    /\ formula # <<>>
    /\ \A i \in 1..Len(formula) : formula[i].type \in {"literal_string", "operator"}
    /\ next_uuid >= 2
    /\ selection_mode = IDLE
    /\ written = {"mode"}

\* C7: activating the capture control of the slot that is already listening leaves
\* the selection mode unchanged and writes no output.
C7_ReactivationIsNoOp ==
    [][\A b \in CellButtons(formula) :
          (ActivateStep(b, PInt(1)) /\ selection_mode = SlotOf(formula, b)) =>
              /\ written' = {}
              /\ selection_mode' = selection_mode]_vars

\* the mode is listening on a control on screen and the last callback wrote nothing
C7_Witness ==
    /\ \E b \in CellButtons(formula) : selection_mode = SlotOf(formula, b)
    /\ written = {}

\* C8: activating or resetting the selection mode never changes the formula
\* sequence, and add-component, delete-last, clear-all and input-change events never
\* change the selection mode.
C8_ModeAndFormulaSeparate ==
    [][/\ ActivateTextCellSelection => formula' = formula
       /\ \A ac \in ACTIVE_CELLS(table_data) :
             (CellSelectionStep(ac) /\ (~ValidTarget(ac) \/ ListeningPosition = 0)) =>
                 formula' = formula
       /\ (AddComponent \/ DeleteLast \/ ClearAll \/ HandleTextInputChange) =>
             selection_mode' = selection_mode]_vars

\* the formula was emptied while the mode went on listening
C8_Witness ==
    /\ formula = <<>>
    /\ "formula" \in written
    /\ selection_mode # IDLE

\* C9: delete-last on a non-empty formula removes exactly the final component and
\* leaves the preceding ones unchanged and in order; on an empty formula it leaves
\* the sequence empty and reports "Result: Nothing to delete.", which is no error.
C9_DeleteLast ==
    [][DeleteLast =>
          IF formula # <<>>
          THEN /\ Len(formula') = Len(formula) - 1
               /\ \A i \in 1..Len(formula') : formula'[i] = formula[i]
          ELSE /\ formula' = <<>>
               /\ text_output' = PStr(MSG_NOTHING_TO_DELETE)
               /\ ~StartsWith(text_output'.s, ERROR_PREFIX)
               /\ written' = {"output"}]_vars

\* delete-last was pressed on a formula that had been emptied
C9_Witness ==
    /\ formula = <<>>
    /\ next_uuid > 0
    /\ text_output = PStr(MSG_NOTHING_TO_DELETE)

\* C10: clearing the formula empties the component sequence and leaves the result
\* display at "Result: ", from any prior formula and any prior display.
C10_ClearResets ==
    [][ClearAll => formula' = <<>> /\ text_output' = PStr(MSG_RESULT_PREFIX)]_vars

\* clear-all was the last event, on a formula that had components
C10_Witness ==
    /\ formula = <<>>
    /\ next_uuid > 0
    /\ written = {"formula", "output"}
    /\ text_output = PStr(MSG_RESULT_PREFIX)

----------------------------------------------------------------------------
(* Properties of function parameters and of input changes *)

\* the slot types fixed for each function name
ExpectedSlots(name) ==
    CASE name = "LEFT"       -> <<"cell", "number">>
      [] name = "RIGHT"      -> <<"cell", "number">>
      [] name = "MID"        -> <<"cell", "number", "number">>
      [] name = "SUBSTITUTE" -> <<"cell", "text", "text">>
      [] name = "TEXTBEFORE" -> <<"cell", "text">>
      [] name = "TEXTAFTER"  -> <<"cell", "text">>

\* the value v may be held by a slot of the given type
SlotHolds(slot, v) ==
    \/ v.k = "None"
    \/ slot = "cell"   /\ v.k = "dict" /\ DOMAIN v = {"k", "ref", "value"}
    \/ slot = "number" /\ v.k = "int"
    \/ slot = "text"   /\ v.k = "str"

\* C11: after any sequence of events every function component has the parameter
\* count fixed for its name and each slot holds only its type: parameter 0 is unset
\* or a cell record, number slots are unset or an integer, text slots are unset or a
\* string; a cell record is in no other slot than parameter 0.
C11_AritiesAndSlotTypes ==
    \A i \in 1..Len(formula) :
        formula[i].type = "function" =>
            /\ formula[i].name \in FUNCTION_NAMES
            /\ Len(formula[i].params) = Len(ExpectedSlots(formula[i].name))
            /\ \A p \in 1..Len(formula[i].params) :
                  SlotHolds(ExpectedSlots(formula[i].name)[p], formula[i].params[p])

\* a MID component with its cell and both numbers set
C11_Witness ==
    /\ formula # <<>>
    /\ formula[1].type = "function"
    /\ formula[1].name = "MID"
    /\ formula[1].params[1].k = "dict"
    /\ formula[1].params[2].k = "int"
    /\ formula[1].params[3].k = "int"

\* position <<component, parameter>> (1-based) of the function parameter that
\* carries the input input_id
InputOwner(f, input_id) ==
    CHOOSE ip \in (1..Len(f)) \X (1..3) :
        /\ f[ip[1]].type = "function"
        /\ ip[2] <= Len(f[ip[1]].param_ids)
        /\ f[ip[1]].param_ids[ip[2]] = input_id

\* Python's int() accepts the value
ParsesAsInteger(v) ==
    \/ v.k \in {"int", "float"}
    \/ v.k = "str" /\ ParseInt(v.s).k = "int"

\* C12: an input-change event on a numeric slot whose new (non-empty) value fails to
\* parse as an integer stores null in that slot, a value that parses stores that
\* integer; no other slot changes and nothing but the formula is written.
C12_NumericParse ==
    [][\A input_id \in Inputs(formula) : \A v \in NUM_VALUES \ {None} :
          (input_id.type = "text-num-input" /\ InputChangeStep(input_id, v)) =>
              LET i == InputOwner(formula, input_id)[1]
                  p == InputOwner(formula, input_id)[2]
              IN  /\ ~ParsesAsInteger(v) => formula'[i].params[p] = None
                  /\ ParsesAsInteger(v) => formula'[i].params[p].k = "int"
                  /\ v.k = "int" => formula'[i].params[p] = v
                  /\ formula' = [formula EXCEPT ![i].params[p] = formula'[i].params[p]]
                  /\ written' \subseteq {"formula"}]_vars

\* the only component is a LEFT whose count was set and then replaced by a value
\* that does not parse
C12_Witness ==
    /\ Len(formula) = 1
    /\ next_uuid = 1
    /\ formula[1].type = "function"
    /\ formula[1].name = "LEFT"
    /\ formula[1].params[1].k = "dict"
    /\ formula[1].params[2] = None
    /\ written = {"formula"}

----------------------------------------------------------------------------
(* Properties of the evaluator *)

\* the component at position i is an operator first or after an operator, or a
\* value component whose predecessor is not an operator
IsStructuralError(f, i) ==
    \/ f[i].type = "operator" /\ (i = 1 \/ f[i - 1].type = "operator")
    \/ f[i].type # "operator" /\ i > 1 /\ f[i - 1].type # "operator"

\* a cell_value with no cell, a function with a parameter that is not set
Unresolved(c) ==
    \/ c.type = "cell_value" /\ c.value = None
    \/ c.type = "function" /\ \E p \in 1..Len(c.params) : c.params[p] = None

\* what the function of a resolved function component returns for its parameters,
\* a cell parameter standing for its value
FunctionValue(c) ==
    LET arg(p) == IF c.params[p].k = "dict" THEN c.params[p].value ELSE c.params[p]
    IN  CASE c.name = "LEFT"       -> excel_left(arg(1), arg(2))
          [] c.name = "RIGHT"      -> excel_right(arg(1), arg(2))
          [] c.name = "MID"        -> excel_mid(arg(1), arg(2), arg(3))
          [] c.name = "SUBSTITUTE" -> excel_substitute(arg(1), arg(2), arg(3))
          [] c.name = "TEXTBEFORE" -> excel_textbefore(arg(1), arg(2))
          [] c.name = "TEXTAFTER"  -> excel_textafter(arg(1), arg(2))

\* the component at position i is a well-placed, resolved function that signals an error
IsFunctionError(f, i) ==
    /\ f[i].type = "function"
    /\ ~IsStructuralError(f, i)
    /\ ~Unresolved(f[i])
    /\ StartsWith(FunctionValue(f[i]), ERROR_PREFIX)

\* the position of the first error a left-to-right walk meets, 0 if there is none
FirstErrorPosition(f) ==
    LET errors == {i \in 1..Len(f) : IsStructuralError(f, i) \/ IsFunctionError(f, i)}
    IN  IF errors = {} THEN 0 ELSE CHOOSE i \in errors : \A j \in errors : i <= j

\* the evaluator was applied to a component sequence
Evaluated == call.fn = "calculate_text_formula_result"

\* C13: walking left to right, the evaluator reports the misplaced-operator error
\* when it meets an operator at position 0 or after an operator, and the
\* missing-'&' error when it meets a value component whose predecessor is not an
\* operator; the error string alone is the final result.
C13_StructuralErrors ==
    Evaluated =>
        LET f == call.args[1]
            j == FirstErrorPosition(f)
        IN  (j # 0 /\ IsStructuralError(f, j)) =>
                call.result =
                    IF f[j].type = "operator"
                    THEN MSG_MISPLACED_OPERATOR
                    ELSE MSG_MISSING_AMP \o NameChars(f[j].type) \o MSG_COMPONENT_TAIL

\* a literal "-" was accumulated before a function without '&' in front stopped the walk
C13_Witness ==
    /\ Evaluated
    /\ Len(call.args[1]) = 3
    /\ call.args[1][1].type = "literal_string"
    /\ call.args[1][1].value = PStr(<<"-">>)
    /\ call.args[1][2].type = "function"
    /\ call.result = MSG_MISSING_AMP \o NameChars("function") \o MSG_COMPONENT_TAIL

\* the component adds a value to the result: a literal, a cell_value with a cell, a
\* function with all parameters set
Contributes(c) == c.type # "operator" /\ ~Unresolved(c)

\* the text a contributing component adds
Contribution(c) ==
    CASE c.type = "literal_string" -> _to_str_safe(c.value)
      [] c.type = "cell_value"     -> _to_str_safe(c.value)
      [] c.type = "function"       -> FunctionValue(c)

\* the contributions of the first n components, concatenated left to right
RECURSIVE Accumulated(_, _)
Accumulated(f, n) ==
    IF n = 0 THEN <<>>
    ELSE Accumulated(f, n - 1) \o (IF Contributes(f[n]) THEN Contribution(f[n]) ELSE <<>>)

\* C14: a cell_value with no resolved cell and a function with an unset parameter
\* are skipped without error: they add nothing to the result, and the components
\* after them are still evaluated and concatenated.
C14_UnresolvedAreSkipped ==
    Evaluated =>
        LET f == call.args[1]
        IN  ((\E i \in 1..Len(f) : Unresolved(f[i])) /\ FirstErrorPosition(f) = 0) =>
                /\ ~StartsWith(call.result, ERROR_PREFIX)
                /\ call.result =
                       IF \E i \in 1..Len(f) : Contributes(f[i])
                       THEN MSG_RESULT_PREFIX \o Accumulated(f, Len(f))
                       ELSE MSG_NO_OUTPUT_YET

\* LEFT without its count, '&', TEXTAFTER(A1, "-"): the result is that of TEXTAFTER
C14_Witness ==
    /\ Evaluated
    /\ Len(call.args[1]) = 3
    /\ call.args[1][1].type = "function"
    /\ call.args[1][1].params[2] = None
    /\ call.args[1][3].type = "function"
    /\ call.result = MSG_RESULT_PREFIX \o <<"A", "L">>

\* C15: when a fully resolved function component signals an error, evaluation stops
\* there: the final result is exactly that first error string, whatever values or
\* errors the later components would give.
C15_FirstFunctionErrorIsResult ==
    Evaluated =>
        LET f == call.args[1]
            j == FirstErrorPosition(f)
        IN  (j # 0 /\ IsFunctionError(f, j)) => call.result = FunctionValue(f[j])

\* LEFT(A1, -1) fails first; the TEXTBEFORE after it would fail with another message
C15_Witness ==
    /\ Evaluated
    /\ Len(call.args[1]) = 3
    /\ call.args[1][1].type = "function"
    /\ call.args[1][1].name = "LEFT"
    /\ call.args[1][3].type = "function"
    /\ call.args[1][3].name = "TEXTBEFORE"
    /\ call.result = MSG_NEGATIVE_COUNT

\* the error string of the first error of f
FirstErrorString(f) ==
    LET j == FirstErrorPosition(f)
    IN  IF IsFunctionError(f, j) THEN FunctionValue(f[j])
        ELSE IF f[j].type = "operator" THEN MSG_MISPLACED_OPERATOR
        ELSE MSG_MISSING_AMP \o NameChars(f[j].type) \o MSG_COMPONENT_TAIL

\* C16: the evaluator's result is "Result: " for the empty sequence, the error
\* string when an error occurred, "Result: [No output yet]" when the sequence is not
\* empty and no component contributed, and otherwise "Result: " followed by the
\* left-to-right concatenation of the contributed values.
C16_FinalResult ==
    Evaluated =>
        LET f == call.args[1]
        IN  call.result =
                IF f = <<>> THEN MSG_RESULT_PREFIX
                ELSE IF FirstErrorPosition(f) # 0 THEN FirstErrorString(f)
                ELSE IF ~\E i \in 1..Len(f) : Contributes(f[i]) THEN MSG_NO_OUTPUT_YET
                ELSE MSG_RESULT_PREFIX \o Accumulated(f, Len(f))

\* two values were concatenated: LEFT(A1, 2) & "-" gives "AK-"
C16_Witness ==
    /\ Evaluated
    /\ Len(call.args[1]) = 3
    /\ call.args[1][1].type = "function"
    /\ call.args[1][3].type = "literal_string"
    /\ call.result = MSG_RESULT_PREFIX \o <<"A", "K", "-">>

----------------------------------------------------------------------------
(* The scenario of the specification *)

\* the formula LEFT(party, 1) & "-" & TEXTBEFORE(seat, "-") on the first table row
IsScenarioFormula(f) ==
    /\ Len(f) = 5
    /\ f[1].type = "function" /\ f[1].name = "LEFT"
    /\ f[1].params = <<CellDict(PStr(<<"C", "1">>), PStr(<<"R", "e", "p", "u", "b", "l", "i", "c", "a", "n">>)),
                       PInt(1)>>
    /\ f[2].type = "operator"
    /\ f[3].type = "literal_string" /\ f[3].value = PStr(<<"-">>)
    /\ f[4].type = "operator"
    /\ f[5].type = "function" /\ f[5].name = "TEXTBEFORE"
    /\ f[5].params = <<CellDict(PStr(<<"A", "1">>), PStr(<<"A", "K", "-", "A", "L">>)),
                       PStr(<<"-">>)>>

\* C17: once add-component, cell-selection and input-change events have built
\* LEFT(party, 1) & "-" & TEXTBEFORE(seat, "-") on the row seat "AK-AL",
\* party "Republican", the displayed result is "R-AK".
C17_ScenarioResult ==
    (IsScenarioFormula(formula) /\ "formula" \in written) =>
        text_output = PStr(MSG_RESULT_PREFIX \o <<"R", "-", "A", "K">>)

\* the formula of the scenario is complete and shown
C17_Witness ==
    /\ IsScenarioFormula(formula)
    /\ "formula" \in written
    /\ text_output = PStr(<<"R", "e", "s", "u", "l", "t", ":", " ", "R", "-", "A", "K">>)

----------------------------------------------------------------------------
(* Properties of the helper functions *)

\* C18: for every integer n >= 0 and every string s, LEFT(s, n) has length
\* min(n, len(s)) and is the first min(n, len(s)) characters of s; LEFT(s, 0) is
\* the empty string.
C18_Left ==
    (call.fn = "excel_left" /\ call.args[1].k = "str" /\ call.args[2].k = "int"
        /\ call.args[2].n >= 0) =>
        LET s == call.args[1].s
            n == call.args[2].n
            m == IF n < Len(s) THEN n ELSE Len(s)
        IN  /\ Len(call.result) = m
            /\ \A i \in 1..m : call.result[i] = s[i]
            /\ n = 0 => call.result = <<>>

\* LEFT("abb", 2) is "ab"
C18_Witness ==
    /\ call.fn = "excel_left"
    /\ call.args = <<PStr(<<"a", "b", "b">>), PInt(2)>>
    /\ call.result = <<"a", "b">>

\* C19: for every integer n >= 0 and every string s, RIGHT(s, n) is the last
\* min(n, len(s)) characters of s, the empty string when n = 0.
C19_Right ==
    (call.fn = "excel_right" /\ call.args[1].k = "str" /\ call.args[2].k = "int"
        /\ call.args[2].n >= 0) =>
        LET s == call.args[1].s
            n == call.args[2].n
            m == IF n < Len(s) THEN n ELSE Len(s)
        IN  /\ Len(call.result) = m
            /\ \A i \in 1..m : call.result[i] = s[Len(s) - m + i]
            /\ n = 0 => call.result = <<>>

\* RIGHT("abb", 0) is the empty string
C19_Witness ==
    /\ call.fn = "excel_right"
    /\ call.args = <<PStr(<<"a", "b", "b">>), PInt(0)>>
    /\ call.result = <<>>

\* the argument is an integer: a Python int, or the text of one
IsInteger(v) == v.k = "int" \/ (v.k = "str" /\ ParseInt(v.s).k = "int")

\* the integer such an argument stands for
IntegerOf(v) == IF v.k = "int" THEN v.n ELSE ParseInt(v.s).n

C21_Mid ==
    call.fn = "excel_mid" =>
        /\ (call.args[1].k = "str" /\ call.args[2].k = "int" /\ call.args[3].k = "int"
               /\ call.args[2].n >= 1 /\ call.args[3].n >= 0) =>
              LET s     == call.args[1].s
                  start == call.args[2].n
                  count == call.args[3].n
                  last  == IF start + count - 1 < Len(s) THEN start + count - 1 ELSE Len(s)
                  m     == IF last < start THEN 0 ELSE last - start + 1
              IN  /\ Len(call.result) = m
                  /\ \A i \in 1..m : call.result[i] = s[start + i - 1]
                  /\ start > Len(s) => call.result = <<>>
        /\ call.args = <<PStr(<<"R", "o", "b", "e", "r", "t">>), PInt(2), PInt(4)>> =>
              call.result = <<"o", "b", "e", "r">>
        /\ call.args = <<PStr(<<"R", "o", "b", "e", "r", "t">>), PInt(0), PInt(4)>> =>
              call.result = MSG_MID_INVALID_START

\* MID("Robert", 2, 4) was computed
C21_Witness ==
    /\ call.fn = "excel_mid"
    /\ call.args = <<PStr(<<"R", "o", "b", "e", "r", "t">>), PInt(2), PInt(4)>>
    /\ call.result = <<"o", "b", "e", "r">>

\* old occurs in s at 1-based position i
OccursAt(s, old, i) == i + Len(old) - 1 <= Len(s) /\ SubSeq(s, i, i + Len(old) - 1) = old

\* s from position i on, with every occurrence of the non-empty old met in a
\* left-to-right scan replaced by new
RECURSIVE AllReplacedFrom(_, _, _, _)
AllReplacedFrom(s, old, new, i) ==
    IF i > Len(s) THEN <<>>
    ELSE IF OccursAt(s, old, i) THEN new \o AllReplacedFrom(s, old, new, i + Len(old))
    ELSE <<s[i]>> \o AllReplacedFrom(s, old, new, i + 1)

\* C22: SUBSTITUTE(text, old, new) is text unchanged when old is the empty string,
\* for every text and new; otherwise it is text with all occurrences of old
\* replaced by new.
C22_Substitute ==
    (call.fn = "excel_substitute" /\ \A a \in 1..3 : call.args[a].k = "str") =>
        LET s   == call.args[1].s
            old == call.args[2].s
            new == call.args[3].s
        IN  call.result = IF old = <<>> THEN s ELSE AllReplacedFrom(s, old, new, 1)

\* both occurrences of "a" in "aba" were replaced by "bb"
C22_Witness ==
    /\ call.fn = "excel_substitute"
    /\ call.args = <<PStr(<<"a", "b", "a">>), PStr(<<"a">>), PStr(<<"b", "b">>)>>
    /\ call.result = <<"b", "b", "b", "b", "b">>

\* the 1-based positions at which d occurs in s
Occurrences(s, d) == {i \in 1..Len(s) : OccursAt(s, d, i)}

\* the 1-based position of the first occurrence of d in s
FirstOccurrence(s, d) == CHOOSE i \in Occurrences(s, d) : \A j \in Occurrences(s, d) : i <= j

\* the DelimiterNotFound message for delimiter d
DelimiterNotFound(d) == MSG_DELIM_HEAD \o d \o MSG_DELIM_TAIL

\* C23: with an empty delimiter TEXTBEFORE returns the empty string and TEXTAFTER
\* returns text unchanged; with a non-empty delimiter both split on its first
\* occurrence (TEXTBEFORE the part before it, TEXTAFTER everything after it), and
\* both fail with DelimiterNotFound when the delimiter does not occur in text.
C23_TextBeforeAfter ==
    (call.fn \in {"excel_textbefore", "excel_textafter"}
        /\ call.args[1].k = "str" /\ call.args[2].k = "str") =>
        LET s      == call.args[1].s
            d      == call.args[2].s
            before == call.fn = "excel_textbefore"
        IN  IF d = <<>> THEN call.result = IF before THEN <<>> ELSE s
            ELSE IF Occurrences(s, d) = {} THEN call.result = DelimiterNotFound(d)
            ELSE LET i == FirstOccurrence(s, d)
                 IN  call.result = IF before THEN SubSeq(s, 1, i - 1)
                                   ELSE SubSeq(s, i + Len(d), Len(s))

\* TEXTAFTER("aba", "a") = "ba": the delimiter occurs twice and the first occurrence is used
C23_Witness ==
    /\ call.fn = "excel_textafter"
    /\ call.args = <<PStr(<<"a", "b", "a">>), PStr(<<"a">>)>>
    /\ call.result = <<"b", "a">>

\* C24: for every string s and non-empty delimiter d that occurs exactly once in
\* s, TEXTBEFORE(s, d) + d + TEXTAFTER(s, d) = s.
C24_BeforeDelimiterAfter ==
    (call.fn \in {"excel_textbefore", "excel_textafter"}
        /\ call.args[1].k = "str" /\ call.args[2].k = "str"
        /\ call.args[2].s # <<>>
        /\ Cardinality(Occurrences(call.args[1].s, call.args[2].s)) = 1) =>
        LET s      == call.args[1].s
            d      == call.args[2].s
            before == IF call.fn = "excel_textbefore" THEN call.result
                      ELSE excel_textbefore(call.args[1], call.args[2])
            after  == IF call.fn = "excel_textafter" THEN call.result
                      ELSE excel_textafter(call.args[1], call.args[2])
        IN  before \o d \o after = s

\* TEXTBEFORE("bab", "a") = "b": a two-sided split around the only occurrence
C24_Witness ==
    /\ call.fn = "excel_textbefore"
    /\ call.args = <<PStr(<<"b", "a", "b">>), PStr(<<"a">>)>>
    /\ call.result = <<"b">>
    /\ excel_textafter(call.args[1], call.args[2]) = <<"b">>

----------------------------------------------------------------------------
(* Properties of the MATCH and INDEX exercises *)

\* the cell of row r (1-based) of the match table in the column with 0-based index col
MatchCell(df_match, r, col) == df_match[r][original_match_cols_list[col + 1]]

\* the display text "Result: " followed by result_val
ResultText(result_val) == <<"R","e","s","u","l","t",":"," ">> \o result_val

\* C25: tabular MATCH(value, column) matches exactly: it returns the 1-based row
\* number of a row of the match table whose cell in the selected column equals
\* value, and "#N/A" when no row has that value in that column.
C25_Match ==
    (call.fn = "calculate_match_result"
        /\ call.args[3].array_col_index # None
        /\ call.args[2] # None /\ call.args[2].s # <<>>) =>
        LET df_match == call.args[1]
            value    == call.args[2].s
            col      == call.args[3].array_col_index.n
            rows     == {r \in 1..Len(df_match) : MatchCell(df_match, r, col) = value}
        IN  IF rows = {}
                THEN StartsWith(call.result, ResultText(<<"#","N","/","A">>))
                ELSE \E r \in rows : call.result = ResultText(NatToStr(r))

\* MATCH("x", name column) on a table whose second row alone is named "x",
\* while "x" is the seat of the first row: the result is row 2
C25_Witness ==
    /\ call.fn = "calculate_match_result"
    /\ call.args[2] = PStr(<<"x">>)
    /\ call.args[3].array_col_index = PInt(1)
    /\ Len(call.args[1]) = 2
    /\ call.args[1][1] = [seat |-> <<"x">>, name |-> <<"z">>]
    /\ call.args[1][2].name = <<"x">>
    /\ call.result = ResultText(<<"2">>)

\* C26: tabular INDEX(column, rowNumber) returns the value the match table holds
\* at the selected column and the given 1-based row, for each selectable column
\* and each existing row, and "#N/A" when the row number is not a row of the table.
C26_Index ==
    (call.fn = "calculate_index_result"
        /\ call.args[3].array_col_index # None
        /\ call.args[2].k = "int" /\ call.args[2].n >= 1) =>
        LET df_match  == call.args[1]
            rowNumber == call.args[2].n
            col       == call.args[3].array_col_index.n
        IN  IF rowNumber \in 1..Len(df_match)
                THEN call.result = ResultText(MatchCell(df_match, rowNumber, col))
                ELSE StartsWith(call.result, ResultText(<<"#","N","/","A">>))

\* INDEX(name column, 2) on a table of two rows with different names gives the second name
C26_Witness ==
    /\ call.fn = "calculate_index_result"
    /\ call.args[2] = PInt(2)
    /\ call.args[3].array_col_index = PInt(1)
    /\ Len(call.args[1]) = 2
    /\ call.args[1][1].name = <<"x">>
    /\ call.args[1][2].name = <<"z">>
    /\ call.result = ResultText(<<"z">>)

\* C27: MATCH followed by INDEX on the same table agrees with a manual lookup:
\* for every value v present in the key column and every column col,
\* INDEX(col, MATCH(v, keyCol)) is the value found in column col of a row that
\* holds v in the key column.
C27_IndexOfMatch ==
    (call.fn = "calculate_match_result"
        /\ call.args[3].array_col_index # None
        /\ call.args[2] # None /\ call.args[2].s # <<>>
        /\ \E r \in 1..Len(call.args[1]) :
               MatchCell(call.args[1], r, call.args[3].array_col_index.n) = call.args[2].s) =>
        LET df_match == call.args[1]
            v        == call.args[2].s
            keyCol   == call.args[3].array_col_index.n
            shown    == SubSeq(call.result, Len(ResultText(<<>>)) + 1, Len(call.result))
        IN  /\ \A i \in 1..Len(shown) : IsDigit(shown[i])
            /\ \A col \in {0, 1} :
                   \E r \in 1..Len(df_match) :
                       /\ MatchCell(df_match, r, keyCol) = v
                       /\ calculate_index_result(df_match, PInt(DigitsVal(shown)),
                                                 [array_col_index |-> PInt(col)])
                              = ResultText(MatchCell(df_match, r, col))

\* MATCH("y", seat column) finds row 3 of a table whose rows have different names,
\* and INDEX(name column, 3) gives the name of that row
C27_Witness ==
    /\ call.fn = "calculate_match_result"
    /\ call.args[2] = PStr(<<"y">>)
    /\ call.args[3].array_col_index = PInt(0)
    /\ Len(call.args[1]) = 3
    /\ call.args[1][1] = [seat |-> <<"x">>, name |-> <<"x">>]
    /\ call.args[1][3] = [seat |-> <<"y">>, name |-> <<"z">>]
    /\ call.args[1][2].seat = <<"x">>
    /\ call.result = ResultText(<<"3">>)
    /\ calculate_index_result(call.args[1], PInt(3), [array_col_index |-> PInt(1)]) = ResultText(<<"z">>)

\* C28: in the combined INDEX/MATCH calculation, a column other than the
\* designated key column selected for the MATCH step yields the key-column
\* mismatch error, whatever the lookup value is and whether or not the selected
\* column holds it; no lookup result is returned.
C28_KeyColumnMismatch ==
    (call.fn = "calculate_im_result"
        /\ call.args[4] # None
        /\ original_b_cols_list[call.args[4].col_index + 1] # BIOGUIDE_COL) =>
        /\ StartsWith(call.result, ResultText(<<"E","r","r","o","r",":">>))
        /\ (call.args[2] # None /\ call.args[3] # None) =>
               call.result =
                   ResultText(<<"E","r","r","o","r",":"," ","Y","o","u","r"," ","l","o","o","k","u","p"," ",
                                "c","o","l","u","m","n"," ","d","o","e","s"," ","n","o","t"," ",
                                "c","o","n","t","a","i","n"," ","t","h","e"," ","l","o","o","k","u","p"," ",
                                "v","a","l","u","e","."," ","T","r","y"," ","c","h","o","o","s","i","n","g"," ",
                                "a","n","o","t","h","e","r"," ","c","o","l","u","m","n",".">>)

\* the party column (index 2) is selected for MATCH, it holds the lookup value
\* "x" in a row whose key is "y", and the calculation reports the mismatch
C28_Witness ==
    /\ call.fn = "calculate_im_result"
    /\ call.args[2] # None /\ call.args[3] = [cell_value |-> PStr(<<"x">>)]
    /\ call.args[4] = [col_index |-> 2]
    /\ Len(call.args[1]) = 1
    /\ call.args[1][1].bioguide = PStr(<<"y">>) /\ call.args[1][1].party = PStr(<<"x">>)
    /\ StartsWith(call.result, ResultText(<<"E","r","r","o","r",":"," ","Y","o","u","r">>))

\* C29: in the combined INDEX/MATCH calculation with all three parameters set
\* and the designated key column selected for MATCH, the result is the value at
\* the selected result-column index of a Sheet B row whose key-column value
\* equals the lookup value taken from the selected Sheet A cell (shown as
\* "[Blank]" when that cell of the row is blank), and a not-found result when no
\* Sheet B row has that key.
C29_IndexMatch ==
    (call.fn = "calculate_im_result"
        /\ call.args[2] # None /\ call.args[3] # None /\ call.args[4] # None
        /\ original_b_cols_list[call.args[4].col_index + 1] = BIOGUIDE_COL) =>
        LET df_b   == call.args[1]
            col    == original_b_cols_list[call.args[2].col_index + 1]
            lookup == call.args[3].cell_value
            rows   == {r \in 1..Len(df_b) : df_b[r].bioguide = lookup}
        IN  IF rows = {}
                THEN StartsWith(call.result, ResultText(<<"N","o"," ","m","a","t","c","h"," ",
                                                          "f","o","u","n","d">>))
                ELSE \E r \in rows :
                         call.result = ResultText(IF df_b[r][col] = NaN
                                                      THEN <<"[","B","l","a","n","k","]">>
                                                      ELSE df_b[r][col].s)

\* the name of the second of two rows, found by its key "y"
C29_Witness ==
    /\ call.fn = "calculate_im_result"
    /\ call.args[2] = [col_index |-> 1]
    /\ call.args[3] = [cell_value |-> PStr(<<"y">>)]
    /\ call.args[4] = [col_index |-> 0]
    /\ Len(call.args[1]) = 2
    /\ call.args[1][1] = [bioguide |-> PStr(<<"x">>), name |-> NaN, party |-> PStr(<<"x">>)]
    /\ call.args[1][2] = [bioguide |-> PStr(<<"y">>), name |-> PStr(<<"p">>), party |-> PStr(<<"x">>)]
    /\ call.result = ResultText(<<"p">>)

\* C30: IF evaluation produces one line per row of the conditional table,
\* numbered from 1 in row order: when the value (as string) in the column of the
\* selected cell equals the compare literal the line is prefix1 + name + " (" +
\* first letter of party + "-" + full seat + ")", otherwise prefix2 + name +
\* " (" + first letter of party + "-" + the part of seat before the first "-"
\* (all of a seat without one) + ")".
C30_IfLines ==
    (call.fn = "calculate_if_results" /\ \A a \in 2..5 : call.args[a] # None
        /\ call.args[2].column_id \in DOMAIN call.args[1][1]) =>
        LET df_conditional == call.args[1]
            column         == call.args[2].column_id
            literal        == call.args[3].s
            prefix1        == call.args[4].s
            prefix2        == call.args[5].s
            beforeDash(seat) ==
                IF Occurrences(seat, <<"-">>) = {} THEN seat
                ELSE SubSeq(seat, 1, FirstOccurrence(seat, <<"-">>) - 1)
            line(i) ==
                LET row == df_conditional[i]
                IN  NatToStr(i) \o <<".", " ">>
                        \o (IF str(row[column]) = literal
                                THEN prefix1 \o row.name.s \o <<" ", "(", row.party.s[1], "-">>
                                         \o row.seat.s \o <<")">>
                                ELSE prefix2 \o row.name.s \o <<" ", "(", row.party.s[1], "-">>
                                         \o beforeDash(row.seat.s) \o <<")">>)
        IN  call.result = JoinLines(<<<<"R","e","s","u","l","t","s",":">>>>
                                        \o [i \in 1..Len(df_conditional) |-> line(i)])

\* chamber compared with "H" on two rows: the first is in chamber "H" and keeps
\* its full seat "A-B-C", the second is in chamber 1 and keeps "A" only
C30_Witness ==
    /\ call.fn = "calculate_if_results"
    /\ call.args[2] = [column_id |-> "chamber"]
    /\ call.args[3] = PStr(<<"H">>)
    /\ call.args[4] # None /\ call.args[5] # None
    /\ Len(call.args[1]) = 2
    /\ call.args[1][1].chamber = PStr(<<"H">>)
    /\ call.args[1][2].chamber = PInt(1)
    /\ \A i \in 1..2 : call.args[1][i].seat = PStr(<<"A", "-", "B", "-", "C">>)
    /\ call.result = <<"R","e","s","u","l","t","s",":","\n",
                       "1","."," ","R"," ","N"," ","(","D","-","A","-","B","-","C",")","\n",
                       "2","."," ","S"," ","N"," ","(","D","-","A",")">>

\* C31: IFS evaluation produces one line per row, numbered from 1: the selected
\* column's value is checked against the first literal, then the second, and the
\* line carries the output of the first branch that matches, else the default
\* output; with Democrat -> blue, Republican -> red and the default yellow, a row
\* with party Independent yields yellow.
C31_IfsLines ==
    (call.fn = "calculate_ifs_results" /\ \A a \in 2..8 : call.args[a] # None
        /\ call.args[2].column_id \in DOMAIN call.args[1][1]) =>
        LET df_conditional == call.args[1]
            column         == call.args[2].column_id
            output(row) ==
                IF str(row[column]) = call.args[3].s THEN call.args[4].s
                ELSE IF str(row[column]) = call.args[6].s THEN call.args[7].s
                ELSE call.args[8].s
            lines == [i \in 1..Len(df_conditional) |->
                         NatToStr(i) \o <<".", " ">> \o output(df_conditional[i])]
        IN  /\ call.result = JoinLines(<<<<"R","e","s","u","l","t","s",":">>>> \o lines)
            /\ df_conditional = PARTY_TABLE =>
                   EndsWith(call.result, <<"\n","3","."," ","y","e","l","l","o","w">>)

\* both branches test for "H" and the only row is in chamber "H": the first
\* branch's output "b" is the line
C31_Witness ==
    /\ call.fn = "calculate_ifs_results"
    /\ call.args[2] = [column_id |-> "chamber"]
    /\ call.args[3] = PStr(<<"H">>) /\ call.args[6] = PStr(<<"H">>)
    /\ call.args[4] # None /\ call.args[7] # None /\ call.args[8] # None
    /\ Len(call.args[1]) = 1
    /\ call.args[1][1].chamber = PStr(<<"H">>)
    /\ call.result = <<"R","e","s","u","l","t","s",":","\n","1","."," ","b">>

\* C32: IF and IFS calculation fail fast: if any required parameter (4 for IF,
\* 7 for IFS) is unset the result is a single aggregate error message and no
\* per-row line is produced; a selected column missing from the table aborts the
\* whole calculation with one error rather than producing per-row errors.
C32_FailFast ==
    (call.fn \in {"calculate_if_results", "calculate_ifs_results"}) =>
        LET unset   == \E a \in 2..Len(call.args) : call.args[a] = None
            missing == ~unset /\ call.args[2].column_id \notin DOMAIN call.args[1][1]
            oneLine == \A i \in 1..Len(call.result) : call.result[i] # "\n"
            error   == <<"R","e","s","u","l","t","s",":"," ","E","r","r","o","r"," ","-"," ">>
        IN  /\ unset =>
                /\ oneLine
                /\ StartsWith(call.result, error \o <<"P","l","e","a","s","e"," ","f","i","l","l"," ",
                                                      "i","n"," ","a","l","l"," ","f","o","r","m","u","l","a"," ",
                                                      "p","a","r","t","s">>)
            /\ missing =>
                /\ oneLine
                /\ call.result = error \o <<"C","o","l","u","m","n"," ","'","g","o","n","e","'"," ",
                                            "m","i","s","s","i","n","g"," ","i","n"," ","d","a","t","a",".">>

\* IFS on a table of two rows with only the default output unset
C32_Witness ==
    /\ call.fn = "calculate_ifs_results"
    /\ Len(call.args[1]) = 2
    /\ \A a \in 2..7 : call.args[a] # None
    /\ call.args[8] = None
    /\ call.result = <<"R","e","s","u","l","t","s",":"," ","E","r","r","o","r"," ","-"," ","P","l","e","a","s","e"," ",
                       "f","i","l","l"," ","i","n"," ","a","l","l"," ","f","o","r","m","u","l","a"," ",
                       "p","a","r","t","s",".">>

----------------------------------------------------------------------------
(* Properties of cell and column references *)

\* the number a column name stands for, letters being the digits 1..26 of base 26
RECURSIVE ColumnNumber(_)
ColumnNumber(name) ==
    IF name = <<>> THEN 0
    ELSE ColumnNumber(SubSeq(name, 1, Len(name) - 1)) * 26
             + (CHOOSE d \in 1..26 : LETTERS[d] = name[Len(name)])

\* C33: for every 0-based column index n >= 0 the column letter is the bijective
\* base-26 encoding (0 -> A, 25 -> Z, 26 -> AA, 27 -> AB, 701 -> ZZ, 702 -> AAA),
\* so that distinct indices give distinct letters; a cell reference is the letter
\* followed by the 0-based row index plus 1, and a column-only reference is
\* letter:letter.
C33_ColumnLetters ==
    /\ (call.fn = "get_excel_col_name" /\ call.args[1] >= 0) =>
           /\ Len(call.result) >= 1
           /\ \A i \in 1..Len(call.result) : \E d \in 1..26 : LETTERS[d] = call.result[i]
           /\ ColumnNumber(call.result) = call.args[1] + 1
           /\ call.args[1] = 0   => call.result = <<"A">>
           /\ call.args[1] = 25  => call.result = <<"Z">>
           /\ call.args[1] = 26  => call.result = <<"A", "A">>
           /\ call.args[1] = 27  => call.result = <<"A", "B">>
           /\ call.args[1] = 701 => call.result = <<"Z", "Z">>
           /\ call.args[1] = 702 => call.result = <<"A", "A", "A">>
    /\ (call.fn = "handle_text_cell_selection" /\ call.result.formula # no_update) =>
           LET row == call.args[1].row
               col == ColIndex(call.args[1].column_id)
           IN  call.result.formula.v[1].ref = PStr(<<LETTERS[col + 1]>> \o NatToStr(row + 1))
    /\ (call.fn = "handle_match_column_selection" /\ call.result.children # no_update) =>
           LET col == ListIndex(original_match_cols_list, call.args[1].items[1])
           IN  call.result.children = Set(<<LETTERS[col + 1], ":", LETTERS[col + 1]>>)

\* column index 702, the first with three letters
C33_Witness ==
    /\ call.fn = "get_excel_col_name"
    /\ call.args = <<702>>
    /\ call.result = <<"A", "A", "A">>

----------------------------------------------------------------------------
(* Properties that join the text tab's events and its evaluator *)

\* C34: for every formula sequence reachable through add-component, delete-last,
\* clear-all, cell-selection and input-change events, the evaluator returns
\* neither the misplaced-operator error nor the missing-'&' error, also for a
\* formula that ends with an operator.
C34_StructuralChecksUnreachable ==
    LET final_display == calculate_text_formula_result(formula)
    IN  /\ final_display # MSG_MISPLACED_OPERATOR
        /\ ~StartsWith(final_display, MSG_MISSING_AMP)
        /\ \A i \in 1..Len(formula) : ~IsStructuralError(formula, i)

\* a literal with its text typed in, followed by a trailing operator: the
\* evaluation shows the literal
C34_Witness ==
    /\ Len(formula) = 2
    /\ formula[1].type = "literal_string" /\ formula[1].value = PStr(<<"-">>)
    /\ formula[2].type = "operator"
    /\ calculate_text_formula_result(formula) = MSG_RESULT_PREFIX \o <<"-">>

\* new is old with at most the slot k of component i changed: slot 0 is the ref and
\* value of a cell component or the value of a literal, slot k >= 1 the k-th
\* parameter of a function
OnlySlotChanged(old, new, i, k) ==
    /\ Len(new) = Len(old)
    /\ i \in 1..Len(old)
    /\ \A j \in 1..Len(old) : j # i => new[j] = old[j]
    /\ new[i].id = old[i].id /\ new[i].type = old[i].type
    /\ new[i] = CASE old[i].type = "cell_value" /\ k = 0 ->
                        [old[i] EXCEPT !.ref = new[i].ref, !.value = new[i].value]
                  [] old[i].type = "literal_string" /\ k = 0 ->
                        [old[i] EXCEPT !.value = new[i].value]
                  [] old[i].type = "function" /\ k \in 1..Len(old[i].params) ->
                        [old[i] EXCEPT !.params[k] = new[i].params[k]]
                  [] OTHER -> old[i]

\* the slot the selection mode is listening on, as OnlySlotChanged counts slots
ListeningSlot ==
    IF selection_mode.active_param_index.k = "int"
    THEN selection_mode.active_param_index.n + 1 ELSE 0

\* the component and slot an input on screen belongs to
InputTarget(input_id) ==
    LET hits == {<<i, k>> \in (1..Len(formula)) \X (0..3) :
                    \/ /\ formula[i].type = "literal_string" /\ k = 0
                       /\ formula[i].input_id = input_id
                    \/ /\ formula[i].type = "function" /\ k \in 2..Len(formula[i].param_ids)
                       /\ formula[i].param_ids[k] = input_id}
    IN  CHOOSE h \in hits : TRUE

\* C35: a cell-selection or input-change event that writes the formula store
\* changes exactly the targeted slot of the targeted component: the sequence's
\* length, order, ids and types, and every other component and slot stay.
C35_OnlyTargetedSlot ==
    [][/\ \A ac \in ACTIVE_CELLS(table_data) :
             (CellSelectionStep(ac) /\ "formula" \in written') =>
                 /\ ListeningPosition # 0
                 /\ OnlySlotChanged(formula, formula', ListeningPosition, ListeningSlot)
       /\ \A input_id \in Inputs(formula) : \A v \in InputValues(input_id) :
             (InputChangeStep(input_id, v) /\ "formula" \in written') =>
                 OnlySlotChanged(formula, formula', InputTarget(input_id)[1],
                                 InputTarget(input_id)[2])]_vars

\* a cell was just selected for the text slot of a function that follows two other
\* components and whose number slot had been typed in before
C35_Witness ==
    /\ written = {"formula", "mode"}
    /\ Len(formula) = 3
    /\ formula[3].type = "function"
    /\ formula[3].params[1].k = "dict"
    /\ formula[3].params[2] = PInt(2)

\* the function of a resolved function component takes one of its failing
\* branches: a count that int() rejects or that is negative, a start below 1, a
\* delimiter that is not empty and does not occur in the text
FunctionFailed(c) ==
    LET arg(p)  == IF c.params[p].k = "dict" THEN c.params[p].value ELSE c.params[p]
        bad(p)  == int(arg(p)).k # "int"
        neg(p)  == int(arg(p)).k = "int" /\ int(arg(p)).n < 0
    IN  CASE c.name \in {"LEFT", "RIGHT"} -> bad(2) \/ neg(2)
          [] c.name = "MID" ->
                bad(2) \/ bad(3) \/ (int(arg(2)).k = "int" /\ int(arg(2)).n < 1) \/ neg(3)
          [] c.name = "SUBSTITUTE" -> FALSE
          [] c.name \in {"TEXTBEFORE", "TEXTAFTER"} ->
                /\ _to_str_safe(arg(2)) # <<>>
                /\ Find(_to_str_safe(arg(1)), _to_str_safe(arg(2))) < 0

\* C36: when the sequence is well formed and no resolved function in it failed,
\* the evaluator reports no error and the result is every resolved component's
\* value appended left to right, whatever the cell text and the typed arguments
\* are; an error of a function is reported only when the function failed.
C36_ErrorOnlyWhenFunctionFailed ==
    Evaluated =>
        LET f == call.args[1]
        IN  (/\ \A i \in 1..Len(f) : ~IsStructuralError(f, i)
             /\ \A i \in 1..Len(f) :
                    (f[i].type = "function" /\ ~Unresolved(f[i])) => ~FunctionFailed(f[i]))
            => /\ ~StartsWith(call.result, ERROR_PREFIX)
               /\ (\E i \in 1..Len(f) : Contributes(f[i])) =>
                      call.result = MSG_RESULT_PREFIX \o Accumulated(f, Len(f))

\* C37: when a number or text input of a function component is cleared (its new
\* value is None), the parameter of that input becomes None, so the function is
\* unresolved and the evaluation that follows skips it instead of using the
\* previous value.
C37_ClearedInputUnsetsParameter ==
    [][\A input_id \in Inputs(formula) :
          (/\ input_id.type \in {"text-num-input", "text-text-input"}
           /\ InputChangeStep(input_id, None)) =>
              LET i == InputTarget(input_id)[1]
                  k == InputTarget(input_id)[2]
              IN  /\ formula'[i].params[k] = None
                  /\ Unresolved(formula'[i])]_vars

----------------------------------------------------------------------------
(* Properties of the conditional tab *)

\* C38: after any sequence of conditional-tab events the IFS parameter stores 1
\* and 4 hold the same value, so both IFS branches test the same column.
C38_IfsCellStoresAgree == ifs_param_store[1] = ifs_param_store[4]

\* a cell selection has just written the party cell of the first row into both stores
C38_Witness ==
    /\ written = {"ifs-1", "ifs-4", "cond-mode"}
    /\ ifs_param_store[1].k = "dict"
    /\ ifs_param_store[4].column_id = "party"
    /\ ifs_param_store[4].ref = PStr(<<"D", "1">>)

\* the conditional selection mode holds a cell button
CondListening == cond_selection_mode.active_component_id # None

\* the click names a cell of the first row in a column of the table
FirstRowCell(active_cell) ==
    /\ active_cell # None
    /\ active_cell.row = 0
    /\ \E i \in 1..Len(original_conditional_cols_list) :
           original_conditional_cols_list[i] = active_cell.column_id

\* C39: while a cell button is listening, a click on a cell of another row than the
\* first or of an unknown column updates no IF or IFS parameter store and resets
\* the conditional selection mode to idle; only a first-row click binds the
\* logical-test column; a click while idle changes nothing.
C39_OnlyFirstRowBinds ==
    [][\A active_cell \in COND_ACTIVE_CELLS :
          CondCellSelectionStep(active_cell) =>
              /\ (CondListening /\ active_cell # None /\ ~FirstRowCell(active_cell)) =>
                     /\ UNCHANGED <<if_param_store, ifs_param_store>>
                     /\ cond_selection_mode' = [active_component_id |-> None]
                     /\ written' = {"cond-mode"}
              /\ (CondListening /\ FirstRowCell(active_cell)) =>
                     LET button == cond_selection_mode.active_component_id
                         store  == IF button.formula = "if" THEN if_param_store'[1]
                                   ELSE ifs_param_store'[button.param]
                     IN  /\ store.k = "dict"
                         /\ store.column_id = active_cell.column_id
                         /\ cond_selection_mode' = [active_component_id |-> None]
              /\ ~CondListening =>
                     /\ UNCHANGED <<cond_selection_mode, if_param_store, ifs_param_store>>
                     /\ written' = {}]_vars

\* the handler has just reset the mode without writing a store, while the IFS
\* stores still hold the cell bound before
C39_Witness ==
    /\ written = {"cond-mode"}
    /\ cond_selection_mode = [active_component_id |-> None]
    /\ ifs_param_store[1].k = "dict"
    /\ if_param_store[1] = None

====
